---- MODULE Spec2Model ----
(***************************************************************************)
(* Autoforensics detection engine (src/backend): the position              *)
(* falsification analyzer, the Sybil analyzer (its mock implementation),   *)
(* the extension dispatch of the file readers and the upload validation.   *)
(*                                                                         *)
(* Units.  Python floats are modelled by integers in fixed units:          *)
(*   time        milliseconds           (localtime 1.0  -> 1000)           *)
(*   coordinate  1e-7 degree            (lon 0.0006745  -> 6745)           *)
(*   distance    millimetres                                               *)
(*   speed       millimetres per second (spd 30.0       -> 30000)          *)
(* so that every comparison of the code (speed > 100, ratio > 2.0,         *)
(* rate > 0.01, d < 0.1) is an exact integer comparison.                   *)
(* All model coordinates lie on the equator (latitude 0, and 3e-7 degree   *)
(* in the rows of the field resolution, 3 cm away), where the haversine    *)
(* formula reduces to R * |dlambda|.                                       *)
(***************************************************************************)
EXTENDS Integers, Sequences, FiniteSets, TLC

VARIABLES
    disk_path,   \* path of the file handed to analyze (sequence of tokens)
    disk_file,   \* the file stored under that path
    uploaded,    \* TRUE when the file got there through /api/upload
    http,        \* last answer of /api/upload
    detector,    \* PositionFalsificationDetector: results, threat_level, confidence_score
    sybil,       \* SybilAttackDetector: results, threat_level, confidence_score
    returned,    \* what PositionFalsificationDetector.analyze returned
    sreturned,   \* what SybilAttackDetector.analyze returned
    tally,       \* the counters the threat metrics were last computed from
    locals       \* the locals of the last analyze: data, vehicles, rows_sorted

vars == <<disk_path, disk_file, uploaded, http, detector, sybil, returned, sreturned, tally,
          locals>>

-----------------------------------------------------------------------------
(* Bounds of the model *)

MaxRows == 3        \* rows of the analysed table
MaxNameLen == 3     \* tokens of a file name
MaxTele == 6        \* counts fed to the threat metrics
MaxImp == 11
MaxInc == 21
MaxTs == 1
MaxRep == 1
MaxPointsK == 12    \* total_points up to 50 * MaxPointsK + 1
MaxNeighbours == 1  \* rows before, and after, the row whose fields are resolved
MaxStill == 12      \* records of a vehicle that stands still
MaxHops == 15       \* records of a vehicle that hops between places
MaxPlaces == 12     \* places it hops between, 0.001 degree (111 m) apart
MaxFleet == 51      \* vehicles of a fleet, two records each

(* Thresholds of the analyzer, in the units above *)

SPEED_THRESHOLD_MPS == 50
EXTREME_SPEED_MPS == 100
MIN_TIME_DELTA == 100
SPEED_INCONSISTENCY_RATIO == 2
MIN_SPEED_MMPS == 100
REPEAT_DISTANCE_MM == 100
REPEAT_LOG_EVERY == 10
HOTSPOT_LIMIT == 10
AFFECTED_LIMIT == 50
MICROMETRES_PER_UNIT == 11119   \* 6371000 m * pi / 180 * 1e-7 degree = 0.011119 m

-----------------------------------------------------------------------------
(* Generic helpers *)

Min(a, b) == IF a <= b THEN a ELSE b
Max(a, b) == IF a >= b THEN a ELSE b
Abs(a) == IF a < 0 THEN -a ELSE a

RECURSIVE SeqsUpTo(_, _)
SeqsUpTo(S, n) ==
    IF n = 0 THEN {<<>>}
    ELSE LET shorter == SeqsUpTo(S, n - 1)
         IN  shorter \cup {Append(s, e) : s \in {q \in shorter : Len(q) = n - 1}, e \in S}

(* Python str.split(sep)[-1] on a path of tokens: the tokens after the last
   separator, and the whole path when it holds no separator. *)
RECURSIVE SplitLast(_, _)
SplitLast(path, sep) ==
    IF path = <<>> THEN <<>>
    ELSE LET n == Len(path)
             rest == SplitLast(SubSeq(path, 1, n - 1), sep)
         IN  IF path[n] = sep THEN <<>>
             ELSE IF \E i \in 1..(n - 1) : path[i] = sep
                  THEN Append(rest, path[n])
                  ELSE path

(* str.lower() on the tokens of the model *)
LowerTok(tok) ==
    CASE tok = "CSV" -> "csv"
      [] OTHER -> tok

Lower(path) == [i \in 1..Len(path) |-> LowerTok(path[i])]

-----------------------------------------------------------------------------
(* Raw values of a parsed file: CSV cells are text, JSON values may also be
   numbers or lists. *)

TextNum(n) == [kind |-> "text", num |-> TRUE, s |-> "#", n |-> n]        \* "12.5"
TextId(s) == [kind |-> "text", num |-> FALSE, s |-> s, n |-> 0]          \* "V1": float() fails
EmptyText == [kind |-> "text", num |-> FALSE, s |-> "", n |-> 0]         \* ""
JsonNum(n) == [kind |-> "number", num |-> TRUE, s |-> "#", n |-> n]      \* 12.5
JsonList == [kind |-> "list", num |-> FALSE, s |-> "[..]", n |-> 0]      \* a non-empty list
NoneVal == [kind |-> "none", num |-> FALSE, s |-> "None", n |-> 0]       \* None

(* Python truth value: `if row[key]` *)
Truthy(v) ==
    CASE v.kind = "text" -> v.s # ""
      [] v.kind = "number" -> v.n # 0
      [] v.kind = "list" -> TRUE
      [] OTHER -> FALSE

(* float(v) succeeds *)
FloatOk(v) == v.num

(* hash(v) succeeds: a dict key *)
Hashable(v) == v.kind # "list"

(* Exceptions and results of the helpers: ok or raised *)
Raise(name) == [ok |-> FALSE, exc |-> name]
Ok(v) == [ok |-> TRUE, val |-> v]

-----------------------------------------------------------------------------
(* Files.  A file is [readable, fmt, data]: whether open() succeeds, the
   format its bytes are in, and what the reader of that format returns.
   Data is [iterable, rows]; a row is a dict, a str (whose `has` are the
   field keys occurring in it as substrings) or an int. *)

DictRow(d) == [kind |-> "dict", d |-> d, has |-> {}]
StrRow(has) == [kind |-> "str", d |-> <<>>, has |-> has]
IntRow == [kind |-> "int", d |-> <<>>, has |-> {}]

Table(rows) == [iterable |-> TRUE, rows |-> rows]
Scalar == [iterable |-> FALSE, rows |-> <<>>]

CsvFile(rows) == [readable |-> TRUE, fmt |-> "csv", data |-> Table(rows)]
JsonFile(data) == [readable |-> TRUE, fmt |-> "json", data |-> data]
TextFile(lines) == [readable |-> TRUE, fmt |-> "text", data |-> Table(lines)]
MissingFile == [readable |-> FALSE, fmt |-> "text", data |-> Table(<<>>)]

(* The keys of a dict row, as they show in its text *)
KeysOf(row) == IF row.kind = "dict" THEN DOMAIN row.d ELSE row.has

(* json.load(f) *)
JsonLoad(file) ==
    IF ~file.readable THEN Raise("FileNotFoundError")
    ELSE IF file.fmt = "json" THEN Ok(file.data)
    ELSE Raise("JSONDecodeError")

(* list(csv.DictReader(f)): the first line is the header; a file that is no
   table of the known columns yields rows under an unknown column. *)
CsvDictReader(file) ==
    IF ~file.readable THEN Raise("FileNotFoundError")
    ELSE IF file.fmt = "csv" THEN Ok(file.data)
    ELSE IF file.fmt = "text"
         THEN Ok(Table([i \in 1..(Len(file.data.rows) - 1) |->
                          DictRow([unknown |-> TextId("cell")])]))
         ELSE Ok(Table(<<>>))

(* f.readlines(): every line is a str *)
ReadLines(file) ==
    IF ~file.readable THEN Raise("FileNotFoundError")
    ELSE IF file.fmt = "text" THEN Ok(file.data)
    ELSE IF file.fmt = "csv"
         THEN Ok(Table(IF file.data.rows = <<>> THEN <<>>
                       ELSE <<StrRow(UNION {KeysOf(file.data.rows[i]) :
                                            i \in 1..Len(file.data.rows)})>>
                            \o [i \in 1..Len(file.data.rows) |-> StrRow({})]))
         ELSE Ok(Table(<<StrRow(UNION {KeysOf(file.data.rows[i]) :
                                       i \in 1..Len(file.data.rows)})>>))

SupportedExtensions == {<<"json">>, <<"csv">>, <<"txt">>, <<"log">>}

(* Mutant: the extension is compared without .lower() *)
FileExtension_CaseSensitive(filepath) == SplitLast(filepath, ".")

(* filepath.split('.')[-1].lower() *)
FileExtension(filepath) == Lower(SplitLast(filepath, "."))

(* PositionFalsificationDetector._read_file / SybilAttackDetector._read_file *)
ReadFile(filepath, file) ==
    LET file_extension == FileExtension(filepath)
    IN  IF file_extension = <<"json">> THEN JsonLoad(file)
        ELSE IF file_extension = <<"csv">> THEN CsvDictReader(file)
        ELSE IF file_extension \in {<<"txt">>, <<"log">>} THEN ReadLines(file)
        ELSE Raise("ValueError: Unsupported file format")

-----------------------------------------------------------------------------
(* PositionFalsificationDetector._normalize_data *)

PsnKeys == <<"PSN", "psn", "vehicle_id", "id", "VehicleID">>
TimeKeys == <<"localtime", "LocalTime", "timestamp", "time", "Time">>
XKeys == <<"x", "X", "lon", "longitude", "Longitude", "lng">>
YKeys == <<"y", "Y", "lat", "latitude", "Latitude">>
SpdKeys == <<"spd", "Spd", "speed", "Speed", "velocity">>

Range(s) == {s[i] : i \in 1..Len(s)}
AllKeys == Range(PsnKeys) \cup Range(TimeKeys) \cup Range(XKeys) \cup Range(YKeys)
           \cup Range(SpdKeys)

(* `if key in row and row[key]` on a dict *)
Present(d, key) == key \in DOMAIN d /\ Truthy(d[key])

(* The first key of `keys` whose value is taken; <<>> when none is.
   numeric: the value must also pass float(). *)
RECURSIVE Resolve(_, _, _, _)
Resolve(d, keys, numeric, i) ==
    IF i > Len(keys) THEN <<>>
    ELSE IF Present(d, keys[i]) /\ (~numeric \/ FloatOk(d[keys[i]]))
         THEN <<d[keys[i]]>>
         ELSE Resolve(d, keys, numeric, i + 1)

(* One row: Ok(<<norm_row>>), Ok(<<>>) when the row is dropped, or the
   TypeError of `key in row` / `row[key]` on a row that is no dict. *)
NormalizeRow(row) ==
    IF row.kind = "int" THEN Raise("TypeError")
    ELSE IF row.kind = "str"
         THEN IF row.has \cap AllKeys # {} THEN Raise("TypeError") ELSE Ok(<<>>)
    ELSE LET psn == Resolve(row.d, PsnKeys, FALSE, 1)
             localtime == Resolve(row.d, TimeKeys, TRUE, 1)
             x == Resolve(row.d, XKeys, TRUE, 1)
             y == Resolve(row.d, YKeys, TRUE, 1)
             spd == Resolve(row.d, SpdKeys, TRUE, 1)
         IN  IF psn # <<>> /\ localtime # <<>> /\ x # <<>> /\ y # <<>>
             THEN Ok(<<[psn |-> psn[1], localtime |-> localtime[1].n,
                        x |-> x[1].n, y |-> y[1].n,
                        spd |-> IF spd = <<>> THEN <<>> ELSE <<spd[1].n>>]>>)
             ELSE Ok(<<>>)

(* for row in data, from row i on: the exception of the first row that
   raises one, else `normalized` with the rows that are kept appended in
   their order *)
NormalizeRows(rows, i, normalized) ==
    LET one == [k \in i..Len(rows) |-> NormalizeRow(rows[k])]
        raising == {k \in i..Len(rows) : ~one[k].ok}
        kept == SelectSeq([k \in 1..(Len(rows) - i + 1) |-> one[k + i - 1].val],
                          LAMBDA v : v # <<>>)
    IN  IF raising # {} THEN one[CHOOSE k \in raising : \A j \in raising : k <= j]
        ELSE Ok(normalized \o [k \in 1..Len(kept) |-> kept[k][1]])

NormalizeData(data) ==
    IF ~data.iterable THEN Raise("TypeError")
    ELSE NormalizeRows(data.rows, 1, <<>>)

-----------------------------------------------------------------------------
(* PositionFalsificationDetector.analyze: grouping and sorting *)

(* vehicles.setdefault(psn, []).append(row) for the rows from i on, in the
   dict's insertion order:
   [order |-> psns by first appearance, rows |-> psn -> its rows in the
   order of the input].  A psn that cannot be hashed raises TypeError. *)
GroupRows(data, i, vehicles) ==
    LET rest == SubSeq(data, i, Len(data))
        known == Range(vehicles.order)
        first == SelectSeq([k \in 1..Len(rest) |-> k],
                           LAMBDA k : /\ rest[k].psn \notin known
                                      /\ \A j \in 1..(k - 1) : rest[j].psn # rest[k].psn)
        order == vehicles.order \o [k \in 1..Len(first) |-> rest[first[k]].psn]
    IN  IF \E k \in 1..Len(rest) : ~Hashable(rest[k].psn) THEN Raise("TypeError")
        ELSE Ok([order |-> order,
                 rows |-> [q \in Range(order) |->
                             (IF q \in known THEN vehicles.rows[q] ELSE <<>>)
                             \o SelectSeq(rest, LAMBDA r : r.psn = q)]])

NoVehicles == [order |-> <<>>, rows |-> <<>>]

(* sorted(rows, key = localtime): stable, by insertion from the left *)
RECURSIVE InsertSorted(_, _)
InsertSorted(sorted, r) ==
    IF sorted = <<>> THEN <<r>>
    ELSE IF sorted[Len(sorted)].localtime <= r.localtime THEN Append(sorted, r)
    ELSE Append(InsertSorted(SubSeq(sorted, 1, Len(sorted) - 1), r), sorted[Len(sorted)])

RECURSIVE SortRows(_, _, _)
SortRows(rows, i, sorted) ==
    IF i > Len(rows) THEN sorted
    ELSE SortRows(rows, i + 1, InsertSorted(sorted, rows[i]))

(* Mutant: a sort that is not stable, records of equal time stamp come out
   in the reverse of their input order *)
RowsSorted_TiesReversed(rows) ==
    SortRows([i \in 1..Len(rows) |-> rows[Len(rows) + 1 - i]], 1, <<>>)

(* Mutant: the trajectory is scanned in the order of the input *)
RowsSorted_InputOrder(rows) == rows

RowsSorted(rows) == SortRows(rows, 1, <<>>)

-----------------------------------------------------------------------------
(* PositionFalsificationDetector.analyze: the scan of one trajectory *)

(* dist((lat1, lon1), (lat2, lon2)) in millimetres: the haversine distance
   between two points of the equator, R * |lon2 - lon1| in radians. *)
Dist(coord1, coord2) == (Abs(coord2[2] - coord1[2]) * MICROMETRES_PER_UNIT) \div 1000

(* round(v, 4) of a coordinate: to 1e-4 degree, ties to even *)
Round4(v) ==
    LET a == Abs(v)
        q == a \div 1000
        rem == a % 1000
        up == IF rem > 500 \/ (rem = 500 /\ q % 2 = 1) THEN q + 1 ELSE q
    IN  IF v < 0 THEN -up ELSE up

(* str(psn): the text of a number and the number as text are the same str *)
StrOf(psn) == [s |-> psn.s, n |-> psn.n]

(* geographic_hotspots[loc_key] = geographic_hotspots.get(loc_key, 0) + 1,
   the dict kept as the sequence of its items in insertion order *)
BumpHotspot(hotspots, loc_key) ==
    IF \E i \in 1..Len(hotspots) : hotspots[i].key = loc_key
    THEN [i \in 1..Len(hotspots) |->
            IF hotspots[i].key = loc_key
            THEN [hotspots[i] EXCEPT !.count = @ + 1] ELSE hotspots[i]]
    ELSE Append(hotspots, [key |-> loc_key, count |-> 1])

NoCounts ==
    [total_points |-> 0, impossible_moves |-> 0, inconsistent_speeds |-> 0,
     teleportations |-> 0, off_road_positions |-> 0, repeated_positions |-> 0,
     timestamp_anomalies |-> 0, anomalies |-> <<>>, affected_vehicles |-> {},
     geographic_hotspots |-> <<>>]

(* Mutant: dt < 0 instead of dt <= 0 *)
TimestampCheck_Strict(acc, psn, t1, t2) ==
    IF t2 - t1 < 0
    THEN [acc EXCEPT !.timestamp_anomalies = @ + 1,
                     !.anomalies = Append(@, [psn |-> psn,
                                              type |-> "non_increasing_timestamp",
                                              t |-> t2]),
                     !.affected_vehicles = @ \cup {StrOf(psn)}]
    ELSE acc

(* dt <= 0: the timestamp anomaly of a pair *)
TimestampCheck(acc, psn, t1, t2) ==
    IF t2 - t1 <= 0
    THEN [acc EXCEPT !.timestamp_anomalies = @ + 1,
                     !.anomalies = Append(@, [psn |-> psn,
                                              type |-> "non_increasing_timestamp",
                                              t |-> t2]),
                     !.affected_vehicles = @ \cup {StrOf(psn)}]
    ELSE acc

(* if dt < MIN_TIME_DELTA: dt = MIN_TIME_DELTA *)
ClampDt(dt) == IF dt < MIN_TIME_DELTA THEN MIN_TIME_DELTA ELSE dt

(* Mutant: ratio >= 2.0 instead of ratio > 2.0 *)
SpeedCheck_RatioFrom2(acc, psn, r, d, dt, t2) ==
    IF r.spd = <<>> THEN acc
    ELSE LET rep == r.spd[1] * dt
             comp == 1000 * d
         IN  IF r.spd[1] > MIN_SPEED_MMPS /\ 10 * d > dt
                /\ Max(rep, comp) >= SPEED_INCONSISTENCY_RATIO * Min(rep, comp)
             THEN [acc EXCEPT !.inconsistent_speeds = @ + 1,
                              !.anomalies = Append(@, [psn |-> psn,
                                                       type |-> "inconsistent_speed",
                                                       t |-> t2]),
                              !.affected_vehicles = @ \cup {StrOf(psn)}]
             ELSE acc

(* reported against computed speed: d in mm over dt in ms is the computed
   speed in m/s, spd is in mm/s; both sides are scaled by 1000 * dt. *)
SpeedCheck(acc, psn, r, d, dt, t2) ==
    IF r.spd = <<>> THEN acc
    ELSE LET rep == r.spd[1] * dt
             comp == 1000 * d
         IN  IF r.spd[1] > MIN_SPEED_MMPS /\ 10 * d > dt
                /\ Max(rep, comp) > SPEED_INCONSISTENCY_RATIO * Min(rep, comp)
             THEN [acc EXCEPT !.inconsistent_speeds = @ + 1,
                              !.anomalies = Append(@, [psn |-> psn,
                                                       type |-> "inconsistent_speed",
                                                       t |-> t2]),
                              !.affected_vehicles = @ \cup {StrOf(psn)}]
             ELSE acc

(* Mutant: the two branches in the other order, so that the lower threshold
   is tested first *)
ExtremeCheck_LowerFirst(acc, psn, r, d, dt, t2) ==
    IF d > SPEED_THRESHOLD_MPS * dt
    THEN [acc EXCEPT !.impossible_moves = @ + 1,
                     !.anomalies = Append(@, [psn |-> psn, type |-> "impossible_speed",
                                              t |-> t2]),
                     !.affected_vehicles = @ \cup {StrOf(psn)},
                     !.geographic_hotspots =
                         BumpHotspot(@, <<Round4(r.y), Round4(r.x)>>)]
    ELSE IF d > EXTREME_SPEED_MPS * dt
    THEN [acc EXCEPT !.teleportations = @ + 1,
                     !.anomalies = Append(@, [psn |-> psn, type |-> "teleportation",
                                              t |-> t2]),
                     !.affected_vehicles = @ \cup {StrOf(psn)},
                     !.geographic_hotspots =
                         BumpHotspot(@, <<Round4(r.y), Round4(r.x)>>)]
    ELSE acc

(* Mutant: >= instead of > at both thresholds *)
ExtremeCheck_AtThreshold(acc, psn, r, d, dt, t2) ==
    IF d >= EXTREME_SPEED_MPS * dt
    THEN [acc EXCEPT !.teleportations = @ + 1,
                     !.anomalies = Append(@, [psn |-> psn, type |-> "teleportation",
                                              t |-> t2]),
                     !.affected_vehicles = @ \cup {StrOf(psn)},
                     !.geographic_hotspots =
                         BumpHotspot(@, <<Round4(r.y), Round4(r.x)>>)]
    ELSE IF d >= SPEED_THRESHOLD_MPS * dt
    THEN [acc EXCEPT !.impossible_moves = @ + 1,
                     !.anomalies = Append(@, [psn |-> psn, type |-> "impossible_speed",
                                              t |-> t2]),
                     !.affected_vehicles = @ \cup {StrOf(psn)},
                     !.geographic_hotspots =
                         BumpHotspot(@, <<Round4(r.y), Round4(r.x)>>)]
    ELSE acc

(* teleportation, else impossible speed *)
ExtremeCheck(acc, psn, r, d, dt, t2) ==
    IF d > EXTREME_SPEED_MPS * dt
    THEN [acc EXCEPT !.teleportations = @ + 1,
                     !.anomalies = Append(@, [psn |-> psn, type |-> "teleportation",
                                              t |-> t2]),
                     !.affected_vehicles = @ \cup {StrOf(psn)},
                     !.geographic_hotspots =
                         BumpHotspot(@, <<Round4(r.y), Round4(r.x)>>)]
    ELSE IF d > SPEED_THRESHOLD_MPS * dt
    THEN [acc EXCEPT !.impossible_moves = @ + 1,
                     !.anomalies = Append(@, [psn |-> psn, type |-> "impossible_speed",
                                              t |-> t2]),
                     !.affected_vehicles = @ \cup {StrOf(psn)},
                     !.geographic_hotspots =
                         BumpHotspot(@, <<Round4(r.y), Round4(r.x)>>)]
    ELSE acc

(* Mutant: every repeated position is logged *)
RepeatCheck_LogEach(acc, psn, d, t2) ==
    IF d < REPEAT_DISTANCE_MM
    THEN LET n == acc.repeated_positions + 1
         IN  [acc EXCEPT !.repeated_positions = n,
                         !.anomalies = Append(@, [psn |-> psn,
                                                  type |-> "repeated_position",
                                                  t |-> t2])]
    ELSE acc

(* Mutant: a repeated position marks its vehicle as affected *)
RepeatCheck_MarksVehicle(acc, psn, d, t2) ==
    IF d < REPEAT_DISTANCE_MM
    THEN LET n == acc.repeated_positions + 1
         IN  [acc EXCEPT !.repeated_positions = n,
                         !.anomalies = IF n % REPEAT_LOG_EVERY = 0
                                       THEN Append(@, [psn |-> psn,
                                                       type |-> "repeated_position",
                                                       t |-> t2])
                                       ELSE @,
                         !.affected_vehicles = @ \cup {StrOf(psn)}]
    ELSE acc

(* repeated identical positions, logged every 10th *)
RepeatCheck(acc, psn, d, t2) ==
    IF d < REPEAT_DISTANCE_MM
    THEN LET n == acc.repeated_positions + 1
         IN  [acc EXCEPT !.repeated_positions = n,
                         !.anomalies = IF n % REPEAT_LOG_EVERY = 0
                                       THEN Append(@, [psn |-> psn,
                                                       type |-> "repeated_position",
                                                       t |-> t2])
                                       ELSE @]
    ELSE acc

(* The loop body for a record r with predecessor prev.  Normalised records
   carry finite x and y, so neither `None in [x1, y1, x2, y2]` nor a failed
   dist() skips the pair.  d is cut to whole millimetres. *)
(* Mutant: a pair flagged as a timestamp anomaly is not checked further *)
ScanPair_SkipFlagged(acc, psn, prev, r) ==
    LET t1 == prev.localtime
        t2 == r.localtime
        a1 == TimestampCheck(acc, psn, t1, t2)
        dt == ClampDt(t2 - t1)
        d == Dist(<<prev.y, prev.x>>, <<r.y, r.x>>)
        a2 == SpeedCheck(a1, psn, r, d, dt, t2)
        a3 == ExtremeCheck(a2, psn, r, d, dt, t2)
    IN  IF t2 - t1 <= 0 THEN a1 ELSE RepeatCheck(a3, psn, d, t2)

ScanPair(acc, psn, prev, r) ==
    LET t1 == prev.localtime
        t2 == r.localtime
        a1 == TimestampCheck(acc, psn, t1, t2)
        dt == ClampDt(t2 - t1)
        d == Dist(<<prev.y, prev.x>>, <<r.y, r.x>>)
        a2 == SpeedCheck(a1, psn, r, d, dt, t2)
        a3 == ExtremeCheck(a2, psn, r, d, dt, t2)
    IN  RepeatCheck(a3, psn, d, t2)

(* for r in rows_sorted: total_points += 1; ...; prev = r
   (the counters after one iteration are computed before the next starts:
   total_points is positive from the first record on) *)
RECURSIVE ScanRows(_, _, _, _)
ScanRows(acc, psn, rows_sorted, i) ==
    IF i > Len(rows_sorted) THEN acc
    ELSE LET counted == [acc EXCEPT !.total_points = @ + 1]
             after == IF i = 1 THEN counted
                      ELSE ScanPair(counted, psn, rows_sorted[i - 1], rows_sorted[i])
         IN  CASE after.total_points > 0 -> ScanRows(after, psn, rows_sorted, i + 1)

(* Mutant: a trajectory of one record is scanned like the others *)
ScanVehicle_NoSkip(acc, psn, rows) == ScanRows(acc, psn, RowsSorted(rows), 1)

(* if len(rows_sorted) < 2: continue *)
ScanVehicle(acc, psn, rows) ==
    LET rows_sorted == RowsSorted(rows)
    IN  IF Len(rows_sorted) < 2 THEN acc
        ELSE ScanRows(acc, psn, rows_sorted, 1)

(* for psn, rows in vehicles.items()
   (the counters after one trajectory are computed before the next starts) *)
RECURSIVE ScanVehicles(_, _, _)
ScanVehicles(acc, vehicles, k) ==
    IF k > Len(vehicles.order) THEN acc
    ELSE LET after == ScanVehicle(acc, vehicles.order[k], vehicles.rows[vehicles.order[k]])
         IN  CASE after.total_points >= 0 -> ScanVehicles(after, vehicles, k + 1)

-----------------------------------------------------------------------------
(* PositionFalsificationDetector.analyze: threat metrics.
   A confidence score is the fraction num / den. *)

Frac(num, den) == [num |-> num, den |-> den]
Zero == Frac(0, 1)
One == Frac(1, 1)

(* Mutant: the repeated positions are counted as anomalies too *)
TotalAnomalies_WithRepeated(c) ==
    c.teleportations + c.impossible_moves + c.inconsistent_speeds + c.timestamp_anomalies
    + c.repeated_positions

(* total_anomalies = teleportations + impossible_moves + inconsistent_speeds
                     + timestamp_anomalies *)
TotalAnomalies(c) ==
    c.teleportations + c.impossible_moves + c.inconsistent_speeds + c.timestamp_anomalies

(* min(1.0, anomaly_rate * 10) with anomaly_rate = total_anomalies / total_points *)
ConfidenceOf(total_anomalies, total_points) ==
    IF 10 * total_anomalies >= total_points THEN One
    ELSE Frac(10 * total_anomalies, total_points)

(* Mutant: impossible_moves >= 10 instead of > 10 *)
ThreatLevelOf_ImpossibleFrom10(c) ==
    LET points == Max(1, c.total_points)
    IN  IF c.teleportations > 5 \/ 100 * c.teleportations > points THEN "Critical"
        ELSE IF c.teleportations > 0 \/ c.impossible_moves >= 10
                \/ 50 * c.impossible_moves > points THEN "High"
        ELSE IF c.impossible_moves > 0 \/ c.inconsistent_speeds > 20 THEN "Medium"
        ELSE "Low"

(* Mutant: teleportations > 6 instead of > 5 *)
ThreatLevelOf_TeleportOver6(c) ==
    LET points == Max(1, c.total_points)
    IN  IF c.teleportations > 6 \/ 100 * c.teleportations > points THEN "Critical"
        ELSE IF c.teleportations > 0 \/ c.impossible_moves > 10
                \/ 50 * c.impossible_moves > points THEN "High"
        ELSE IF c.impossible_moves > 0 \/ c.inconsistent_speeds > 20 THEN "Medium"
        ELSE "Low"

(* The if/elif chain on the counts; the rates are x / max(1, total_points),
   so rate > 0.01 is 100 * x > total_points and rate > 0.02 is 50 * x > total_points. *)
ThreatLevelOf(c) ==
    LET points == Max(1, c.total_points)
    IN  IF c.teleportations > 5 \/ 100 * c.teleportations > points THEN "Critical"
        ELSE IF c.teleportations > 0 \/ c.impossible_moves > 10
                \/ 50 * c.impossible_moves > points THEN "High"
        ELSE IF c.impossible_moves > 0 \/ c.inconsistent_speeds > 20 THEN "Medium"
        ELSE IF c.inconsistent_speeds > 0 \/ c.timestamp_anomalies > 0 THEN "Low"
        ELSE "Low"

(* Mutant: no branch for total_points == 0 *)
ThreatMetrics_NoEmptyBranch(c) ==
    [confidence_score |-> ConfidenceOf(TotalAnomalies(c), c.total_points),
     threat_level |-> ThreatLevelOf(c)]

(* if total_points == 0: ... else: ...  -> the fields set on self *)
ThreatMetrics(c) ==
    IF c.total_points = 0
    THEN [confidence_score |-> Zero, threat_level |-> "Unknown"]
    ELSE [confidence_score |-> ConfidenceOf(TotalAnomalies(c), c.total_points),
          threat_level |-> ThreatLevelOf(c)]

-----------------------------------------------------------------------------
(* PositionFalsificationDetector.analyze: the findings *)

(* round(a / b) with ties to even, a >= 0, b > 0 *)
RoundDiv(a, b) ==
    LET q == a \div b
        twice == 2 * (a % b)
    IN  IF twice > b \/ (twice = b /\ q % 2 = 1) THEN q + 1 ELSE q

(* sorted(items, key = count, reverse = True): stable *)
RECURSIVE InsertByCount(_, _)
InsertByCount(sorted, h) ==
    IF sorted = <<>> THEN <<h>>
    ELSE IF sorted[Len(sorted)].count >= h.count THEN Append(sorted, h)
    ELSE Append(InsertByCount(SubSeq(sorted, 1, Len(sorted) - 1), h), sorted[Len(sorted)])

RECURSIVE SortHotspots(_, _, _)
SortHotspots(items, i, sorted) ==
    IF i > Len(items) THEN sorted
    ELSE SortHotspots(items, i + 1, InsertByCount(sorted, items[i]))

(* Mutant: the first 10 buckets in the order of their first incident *)
HotspotList_Unsorted(geographic_hotspots) ==
    LET top == SubSeq(geographic_hotspots, 1, Min(HOTSPOT_LIMIT, Len(geographic_hotspots)))
    IN  [i \in 1..Len(top) |->
           [lat |-> top[i].key[1], lon |-> top[i].key[2], incident_count |-> top[i].count]]

HotspotList(geographic_hotspots) ==
    LET sorted == SortHotspots(geographic_hotspots, 1, <<>>)
        top == SubSeq(sorted, 1, Min(HOTSPOT_LIMIT, Len(sorted)))
    IN  [i \in 1..Len(top) |->
           [lat |-> top[i].key[1], lon |-> top[i].key[2], incident_count |-> top[i].count]]

ThreatIndicators(c) ==
    LET found ==
            (IF c.teleportations > 0 THEN <<"Teleportation detected">> ELSE <<>>)
         \o (IF c.impossible_moves > 0 THEN <<"Impossible speeds">> ELSE <<>>)
         \o (IF c.inconsistent_speeds > 0 THEN <<"Speed inconsistencies">> ELSE <<>>)
         \o (IF c.timestamp_anomalies > 0 THEN <<"Timestamp anomalies">> ELSE <<>>)
         \o (IF c.repeated_positions > 50 THEN <<"GPS lock issues">> ELSE <<>>)
    IN  IF found = <<>> THEN <<"No significant anomalies detected">> ELSE found

(* The sets of F, each less k of its elements *)
RECURSIVE Shrunk(_, _)
Shrunk(F, k) ==
    IF k = 0 THEN F
    ELSE Shrunk(UNION {{K \ {e} : e \in K} : K \in F}, k - 1)

(* list(affected_vehicles)[:50]: the set is iterated in the order of the
   hashes of its strings, which differs from one process to the next, so
   that any 50 of them may be kept when there are more *)
AffectedLists(affected) ==
    IF Cardinality(affected) <= AFFECTED_LIMIT THEN {affected}
    ELSE Shrunk({affected}, Cardinality(affected) - AFFECTED_LIMIT)

(* One of them *)
AffectedList(affected) == CHOOSE kept \in AffectedLists(affected) : TRUE

(* self.results = {...}; anomaly_rate is a percentage with 2 decimals, kept
   in hundredths of a percent *)
Findings(c, vehicles) ==
    [total_positions_analyzed |-> c.total_points,
     total_vehicles |-> Len(vehicles.order),
     anomalous_positions |-> TotalAnomalies(c),
     teleportations |-> c.teleportations,
     impossible_movements |-> c.impossible_moves,
     speed_violations |-> c.impossible_moves + c.teleportations,
     inconsistent_speeds |-> c.inconsistent_speeds,
     timestamp_anomalies |-> c.timestamp_anomalies,
     repeated_positions |-> c.repeated_positions,
     off_road_positions |-> c.off_road_positions,
     gps_spoofing_indicators |-> c.teleportations,
     affected_vehicles |-> AffectedList(c.affected_vehicles),
     geographic_hotspots |-> HotspotList(c.geographic_hotspots),
     threat_indicators |-> ThreatIndicators(c),
     anomaly_rate |-> IF c.total_points > 0
                      THEN RoundDiv(TotalAnomalies(c) * 10000, c.total_points) ELSE 0,
     detection_metrics |-> [precision |-> 91, recall |-> 88, f1_score |-> 89,
                            false_positive_rate |-> 5]]

-----------------------------------------------------------------------------
(* PositionFalsificationDetector: report *)

PositionSummary(self) ==
    IF self.threat_level = "Critical" THEN "CRITICAL"
    ELSE IF self.threat_level = "High" THEN "HIGH RISK"
    ELSE IF self.threat_level = "Medium" THEN "MODERATE RISK"
    ELSE "LOW RISK"

PositionUrgent ==
    <<"URGENT: Immediately flag and isolate vehicles with falsified positions",
      "Notify traffic management systems of compromised data",
      "Implement emergency position verification protocols",
      "Conduct forensic analysis of affected vehicle communication logs",
      "Review and strengthen vehicle authentication mechanisms">>

PositionBase ==
    <<"Cross-reference position data with neighboring vehicles",
      "Monitor for physically impossible movements and speeds",
      "Implement real-time speed and acceleration sanity checks",
      "Use cryptographic signatures for all position messages",
      "Deploy position plausibility checking algorithms",
      "Establish baseline movement patterns for anomaly detection">>

PositionRecommendations(self) ==
    (IF self.threat_level \in {"High", "Critical"} THEN PositionUrgent ELSE <<>>)
    \o PositionBase

PositionCompileReport(self, filepath) ==
    [attack_type |-> "Position Falsification",
     analysis_timestamp |-> "now",
     file_analyzed |-> SplitLast(SplitLast(filepath, "/"), "\\"),
     threat_level |-> self.threat_level,
     confidence_score |-> self.confidence_score,
     status |-> "completed",
     findings |-> self.results,
     summary |-> PositionSummary(self),
     recommendations |-> PositionRecommendations(self)]

(* Mutant: `except ValueError`, which lets a TypeError through *)
PositionErrorObject_ValueErrorOnly(exc) ==
    IF exc = "TypeError" THEN [escaped |-> exc]
    ELSE [error |-> TRUE, message |-> exc, timestamp |-> "now"]

(* except Exception as e: return {'error': True, 'message': str(e), 'timestamp': ...} *)
PositionErrorObject(exc) == [error |-> TRUE, message |-> exc, timestamp |-> "now"]

(* __init__ *)
NewDetector == [results |-> <<>>, threat_level |-> "Unknown", confidence_score |-> Zero]

(* The locals of analyze that the scan starts from: the rows as read (raw,
   which _normalize_data only reads), data after _normalize_data, vehicles
   after the grouping loop, and rows_sorted of every vehicle *)
NoLocals == [stage |-> "none", raw |-> <<>>, data |-> <<>>, vehicles |-> NoVehicles,
             rows_sorted |-> <<>>]

LocalsOf(raw, data, vehicles) ==
    [stage |-> "scan", raw |-> raw, data |-> data, vehicles |-> vehicles,
     rows_sorted |-> [psn \in Range(vehicles.order) |-> RowsSorted(vehicles.rows[psn])]]

(* Mutant: the branch total_points == 0 assigns nothing, so that the threat
   level and the confidence score of the instance stay as they were *)
PositionAnalyze_StaleMetrics(self, filepath, file) ==
    LET read == ReadFile(filepath, file)
        norm == NormalizeData(read.val)
        grouped == GroupRows(norm.val, 1, NoVehicles)
        c == ScanVehicles(NoCounts, grouped.val, 1)
        scored == IF c.total_points = 0
                  THEN [self EXCEPT !.results = Findings(c, grouped.val)]
                  ELSE [self EXCEPT !.confidence_score = ThreatMetrics(c).confidence_score,
                                    !.threat_level = ThreatMetrics(c).threat_level,
                                    !.results = Findings(c, grouped.val)]
        failed(exc) == [self |-> self, ret |-> PositionErrorObject(exc),
                        counts |-> NoCounts, locals |-> NoLocals]
    IN  IF ~read.ok THEN failed(read.exc)
        ELSE IF ~norm.ok THEN failed(norm.exc)
        ELSE IF ~grouped.ok THEN failed(grouped.exc)
        ELSE [self |-> scored, ret |-> PositionCompileReport(scored, filepath), counts |-> c,
              locals |-> LocalsOf(read.val.rows, norm.val, grouped.val)]

(* analyze(self, filepath): [self |-> the instance afterwards, ret |-> what
   is returned, counts |-> the local counters when the scan was reached,
   locals |-> the locals the scan started from] *)
PositionAnalyze(self, filepath, file) ==
    LET read == ReadFile(filepath, file)
        norm == NormalizeData(read.val)
        grouped == GroupRows(norm.val, 1, NoVehicles)
        c == ScanVehicles(NoCounts, grouped.val, 1)
        scored == [self EXCEPT !.confidence_score = ThreatMetrics(c).confidence_score,
                               !.threat_level = ThreatMetrics(c).threat_level,
                               !.results = Findings(c, grouped.val)]
        failed(exc) == [self |-> self, ret |-> PositionErrorObject(exc),
                        counts |-> NoCounts, locals |-> NoLocals]
    IN  IF ~read.ok THEN failed(read.exc)
        ELSE IF ~norm.ok THEN failed(norm.exc)
        ELSE IF ~grouped.ok THEN failed(grouped.exc)
        ELSE [self |-> scored, ret |-> PositionCompileReport(scored, filepath), counts |-> c,
              locals |-> LocalsOf(read.val.rows, norm.val, grouped.val)]

(* Every outcome of analyze: one for each list of affected vehicles the
   report may carry *)
PositionOutcomes(self, filepath, file) ==
    UNION {IF "findings" \notin DOMAIN out.ret THEN {out}
           ELSE {[out EXCEPT !.ret.findings.affected_vehicles = kept,
                             !.self.results.affected_vehicles = kept] :
                    kept \in AffectedLists(out.counts.affected_vehicles)} :
             out \in {PositionAnalyze(self, filepath, file)}}

-----------------------------------------------------------------------------
(* SybilAttackDetector *)

SybilMockResults ==
    [total_vehicles_analyzed |-> 150,
     suspicious_identities |-> 12,
     duplicate_behaviors_detected |-> 8,
     network_anomalies |-> 5,
     threat_indicators |-> <<"Multiple vehicles with similar MAC addresses",
                             "Synchronized message timing patterns",
                             "Identical certificate chains detected",
                             "Abnormal message frequency from suspected nodes">>,
     affected_nodes |-> <<"Node_A45", "Node_B72", "Node_C89">>,
     detection_metrics |-> [precision |-> 87, recall |-> 82, f1_score |-> 84]]

SybilSummary(self) ==
    IF self.threat_level \in {"High", "Critical"} THEN "Critical Sybil attack patterns detected"
    ELSE IF self.threat_level = "Medium" THEN "Moderate Sybil attack indicators found"
    ELSE "Low-level suspicious activity detected"

SybilBase ==
    <<"Implement robust identity verification mechanisms",
      "Deploy distributed trust management systems",
      "Monitor for duplicate MAC addresses and certificate chains",
      "Implement rate limiting for message broadcasts",
      "Use cryptographic authentication for all V2X communications">>

SybilRecommendations(self) ==
    (IF self.threat_level \in {"High", "Critical"}
     THEN <<"URGENT: Isolate suspected malicious nodes immediately",
            "Perform network-wide security audit">>
     ELSE <<>>) \o SybilBase

(* _compile_report: the defaults of the demo are set on self first *)
SybilDefaults(self) ==
    [self EXCEPT !.threat_level = IF @ = "Unknown" THEN "Medium" ELSE @,
                 !.confidence_score = IF @ = Zero THEN Frac(85, 100) ELSE @]

SybilCompileReport(self, filepath) ==
    [attack_type |-> "Sybil Attack",
     analysis_timestamp |-> "now",
     file_analyzed |-> SplitLast(filepath, "/"),
     threat_level |-> self.threat_level,
     confidence_score |-> self.confidence_score,
     status |-> "completed",
     findings |-> self.results,
     summary |-> SybilSummary(self),
     recommendations |-> SybilRecommendations(self)]

(* except Exception as e: message = "Analysis failed: " + str(e) *)
SybilErrorObject(exc) == [error |-> TRUE, message |-> <<"Analysis failed", exc>>, timestamp |-> "now"]

SybilAnalyze(self, filepath, file) ==
    LET read == ReadFile(filepath, file)
        filled == SybilDefaults([self EXCEPT !.results = SybilMockResults])
    IN  IF ~read.ok THEN [self |-> self, ret |-> SybilErrorObject(read.exc)]
        ELSE [self |-> filled, ret |-> SybilCompileReport(filled, filepath)]

-----------------------------------------------------------------------------
(* FileHandler and /api/upload *)

AllowedExtensions == {<<"csv">>, <<"json">>, <<"txt">>, <<"log">>, <<"pcap">>}

(* FileHandler.allowed_file: '.' in filename and
   filename.rsplit('.', 1)[1].lower() in self.allowed_extensions *)
AllowedFile(filename) ==
    /\ \E i \in 1..Len(filename) : filename[i] = "."
    /\ Lower(SplitLast(filename, ".")) \in AllowedExtensions

(* werkzeug's secure_filename on a name of ASCII letters and dots: leading
   and trailing dots are stripped *)
RECURSIVE SecureFilename(_)
SecureFilename(filename) ==
    IF filename = <<>> THEN <<>>
    ELSE IF Head(filename) = "." THEN SecureFilename(Tail(filename))
    ELSE IF filename[Len(filename)] = "."
         THEN SecureFilename(SubSeq(filename, 1, Len(filename) - 1))
    ELSE filename

(* app.config['UPLOAD_FOLDER'] and the time stamp put before the name *)
UploadFolder == <<"uploads", "/">>
UploadPath(filename) == UploadFolder \o <<"20260101_120000_">> \o SecureFilename(filename)

(* upload_file: the answer (status, message, original_filename) and whether
   the file is saved *)
UploadFile(filename) ==
    IF filename = <<>>
    THEN [status |-> 400, body |-> "No file selected", original_filename |-> <<>>,
          saved |-> FALSE]
    ELSE IF AllowedFile(filename)
         THEN [status |-> 200, body |-> "File uploaded successfully",
               original_filename |-> SecureFilename(filename), saved |-> TRUE]
         ELSE [status |-> 400, body |-> "Invalid file type", original_filename |-> <<>>,
               saved |-> FALSE]

-----------------------------------------------------------------------------
(* /api/analyze/sybil, /api/analyze/position and /api/cleanup *)

(* A JSON string that names a file; JsonStr(<<>>) is "" *)
JsonStr(path) == [kind |-> "string", path |-> path]

(* `not filename` for filename = data.get('filename') *)
NoFilename(filename) ==
    \/ filename = <<>>
    \/ IF filename[1].kind = "string" THEN filename[1].path = <<>>
       ELSE ~Truthy(filename[1])

(* os.path.exists(filepath): the stored file, or the upload folder itself *)
PathExists(stored, filepath) ==
    filepath \in ({stored} \ {<<>>}) \cup {UploadFolder \o <<".">>}

(* What open(filepath) finds when the detector reads *)
FileAt(stored, file, filepath) ==
    IF stored # <<>> /\ filepath = stored THEN file ELSE MissingFile

(* The answer of a route.  `status` 0: the route has found the file and is
   about to build its detector.  `report` holds the report of a success. *)
Answered(route, request, status, success, error, report) ==
    [route |-> route, request |-> request, status |-> status, success |-> success,
     error |-> error, report |-> report]

(* The lines of a route down to os.path.exists: what it returns there, or
   that it goes on.  get_json raising, data.get on what is no dict and
   os.path.join with what is no str end in the except clause. *)
CheckRequest(route, request, stored) ==
    IF ~request.json THEN Answered(route, request, 500, FALSE, "BadRequest", <<>>)
    ELSE IF request.data.kind # "dict"
         THEN Answered(route, request, 500, FALSE, "AttributeError", <<>>)
    ELSE IF NoFilename(request.data.filename)
         THEN Answered(route, request, 400, FALSE, "No filename provided", <<>>)
    ELSE IF request.data.filename[1].kind # "string"
         THEN Answered(route, request, 500, FALSE, "TypeError", <<>>)
    ELSE IF ~PathExists(stored, UploadFolder \o request.data.filename[1].path)
         THEN Answered(route, request, 404, FALSE, "File not found", <<>>)
    ELSE Answered(route, request, 0, FALSE, "", <<>>)

(* report_data *)
ReportData(route, request, analysis_results) ==
    [attack_type |-> IF route = "sybil" THEN "Sybil Attack" ELSE "Position Falsification",
     filename |-> IF request.data.original_filename = <<>> THEN request.data.filename[1]
                  ELSE request.data.original_filename[1],
     timestamp |-> "now",
     analysis_results |-> analysis_results,
     report_id |-> IF route = "sybil" THEN "SYBIL_now" ELSE "POSITION_now"]

(* Mutant: the route takes the error marker of the engine for a failure of
   its own *)
RouteAnswer_FailsOnMarker(route, request, analysis_results) ==
    IF "error" \in DOMAIN analysis_results
    THEN Answered(route, request, 500, FALSE, "Analysis failed", <<>>)
    ELSE Answered(route, request, 200, TRUE, "",
                  <<ReportData(route, request, analysis_results)>>)

(* return jsonify({'success': True, 'report': report_data}), 200 *)
RouteAnswer(route, request, analysis_results) ==
    Answered(route, request, 200, TRUE, "",
             <<ReportData(route, request, analysis_results)>>)

(* cleanup_file: whether it removes the file, and its answer *)
CleanupAnswer(stored, filename) ==
    IF PathExists(stored, UploadFolder \o filename)
    THEN [stage |-> "cleanup", status |-> 200, removed |-> TRUE]
    ELSE [stage |-> "cleanup", status |-> 404, removed |-> FALSE]

-----------------------------------------------------------------------------
(* Inputs of the model *)

Psns == {"V1", "V2"}
Times == {0, 10000, 30000}        \* 0 s, 10 s, 30 s
Lons == {0, 100000}               \* 0 and 0.01 degree: 1111.9 m apart
Spds == {EmptyText, TextNum(30000)}   \* no reported speed, 30 m/s

(* A line of a CSV file with the columns psn, localtime, x, y, spd *)
CsvRow(p, t, x, s) ==
    DictRow([psn |-> TextId(p), localtime |-> TextNum(t), x |-> TextNum(x),
             y |-> TextNum(0), spd |-> s])

(* A line whose cells are all empty *)
BlankRow ==
    DictRow([psn |-> EmptyText, localtime |-> EmptyText, x |-> EmptyText,
             y |-> EmptyText, spd |-> EmptyText])

CsvRows == {CsvRow(p, t, x, s) : p \in Psns, t \in Times, x \in Lons, s \in Spds}
           \cup {BlankRow}

Tokens == {"data", ".", "csv", "CSV", "json", "txt", "log", "pcap"}
Names == SeqsUpTo(Tokens, MaxNameLen)

(* One vehicle, 1111.9 m in 10 s *)
Teleport == <<CsvRow("V1", 0, 0, EmptyText), CsvRow("V1", 10000, 100000, EmptyText)>>

(* Lines of a text file that carry position records: as key=value fields,
   and as bare values *)
KeyedLines == <<StrRow({"psn", "localtime", "x", "y"}), StrRow({"psn", "localtime", "x", "y"})>>
BareLines == <<StrRow({}), StrRow({})>>

(* Two vehicles V1 and V2 that report the same position, speed and heading
   at each of n samples *)
ClonedRow(p, k) ==
    DictRow([psn |-> TextId(p), localtime |-> TextNum(1000 * k), x |-> TextNum(10 * k),
             y |-> TextNum(0), spd |-> TextNum(10000), heading |-> TextNum(1000)])
Cloned(n) == [i \in 1..(2 * n) |-> ClonedRow(IF i % 2 = 1 THEN "V1" ELSE "V2", (i + 1) \div 2)]

SampleFiles ==
    {CsvFile(<<>>),
     CsvFile(Teleport),
     JsonFile(Table(Teleport)),
     JsonFile(Scalar),
     JsonFile(Table(<<IntRow>>)),
     JsonFile(Table(<<DictRow([psn |-> JsonList, localtime |-> JsonNum(1000),
                               x |-> JsonNum(100000), y |-> JsonNum(1)])>>)),
     TextFile(<<StrRow({}), StrRow({"x", "id"})>>),
     TextFile(<<StrRow({})>>),
     TextFile(KeyedLines),
     CsvFile(Cloned(5)),
     CsvFile(Cloned(4)),
     TextFile(BareLines)}

(* Rows of a JSON table for the field resolution: a dict with the keys of
   `cells` whose value is given (<<>>: the key is absent) *)
Absent == <<>>
RowOf(cells) ==
    DictRow([k \in {c \in DOMAIN cells : cells[c] # Absent} |-> cells[k][1]])

Filled ==
    [PSN |-> Absent, psn |-> <<TextId("V1")>>, localtime |-> <<TextNum(5000)>>,
     timestamp |-> Absent, x |-> <<TextNum(7)>>, lon |-> Absent, y |-> <<TextNum(0)>>,
     spd |-> Absent]

IdValues == {Absent, <<EmptyText>>, <<TextId("V2")>>, <<JsonNum(0)>>, <<JsonNum(7)>>}
NumValues == {Absent, <<EmptyText>>, <<TextId("abc")>>, <<TextNum(0)>>, <<JsonNum(0)>>,
              <<TextNum(9000)>>, <<JsonNum(9000)>>}

LatValues == {Absent, <<EmptyText>>, <<TextId("abc")>>, <<TextNum(0)>>, <<JsonNum(0)>>,
              <<TextNum(3)>>, <<JsonNum(3)>>}

(* Every pair of values under the two synonym keys of one field, the other
   fields filled; and every speed next to a missing longitude *)
NormRows ==
    {RowOf([Filled EXCEPT !.PSN = a, !.psn = b]) : a, b \in IdValues}
    \cup {RowOf([Filled EXCEPT !.localtime = a, !.timestamp = b]) : a, b \in NumValues}
    \cup {RowOf([Filled EXCEPT !.x = a, !.lon = b]) : a, b \in NumValues}
    \cup {RowOf([Filled EXCEPT !.y = a]) : a \in LatValues}
    \cup {RowOf([Filled EXCEPT !.spd = a, !.x = b]) : a \in NumValues,
                                                      b \in {Absent, <<TextNum(7)>>}}

(* The rows before and after the row under test *)
Neighbours == {RowOf(Filled), RowOf([Filled EXCEPT !.y = Absent]),
               RowOf([Filled EXCEPT !.psn = <<TextId("V2")>>, !.x = <<JsonNum(0)>>])}

(* The two records of a one-vehicle table: time stamps 0 to 30 s, some less
   than 0.1 s apart; longitudes 0 to 0.01 degree, some less than 0.1 m
   apart; no reported speed, 0.05 m/s and 30 m/s *)
PairTimes == {0, 50, 100, 150, 10000, 20000, 30000}
PairLons == {0, 8, 9, 540, 100000}
PairSpds == Spds \cup {TextNum(50)}
PairRows == {CsvRow("V1", t, x, s) : t \in PairTimes, x \in PairLons, s \in PairSpds}

(* The pair handed to the checks of the loop body: the distance dist()
   returned (mm), t2 - t1 (ms) and the reported speed of the record (mm/s,
   <<>> when it has none).  They hold the speeds of exactly 0.1, 50 and
   100 m/s and the ratios of exactly 2. *)
PairDists == {0, 99, 100, 101, 300, 4999, 5000, 5001, 6250, 10000, 10001, 12500, 1000000}
PairGaps == {0, 50, 100, 125, 1000}
PairReports == {<<>>, <<0>>, <<100>>, <<101>>, <<24999>>, <<25000>>, <<50000>>, <<100000>>}

(* Two vehicles that creep by `step` units a second: a records of the
   first and b records of the other.  8 units are 88 mm, 9 units 100 mm. *)
StillSteps == {0, 8, 9}
StillRows(p, n, step) == [k \in 1..n |-> CsvRow(p, 1000 * k, step * k, EmptyText)]
StillTable(first, a, b, step) ==
    StillRows(first, a, step) \o StillRows(CHOOSE q \in Psns : q # first, b, step)

(* One vehicle that hops between m places 0.001 degree apart, a record
   every `gap` ms, 30 m/s reported: round and round ("round"), or through
   all of them once and then to and fro between the last two ("shuttle").
   Every other record lies 0.00004 degree (4.4 m) off its place, within
   the same 0.0001 degree. *)
HopGaps == {0, 1000, 1500, 3000}
HopPatterns == {"round", "shuttle"}
HopPlace(pattern, m, i) ==
    IF pattern = "round" THEN i % m
    ELSE IF i <= m THEN i - 1
    ELSE IF m = 1 THEN 0
    ELSE (m - 1) - ((i - m) % 2)
Hops(pattern, n, m, gap) ==
    [i \in 1..n |-> CsvRow("V1", gap * i, 10000 * HopPlace(pattern, m, i) + 400 * (i % 2),
                           TextNum(30000))]

(* The instance a report is compiled from: the threat level and the
   confidence score as the metrics (or the caller's own logic, for the
   Sybil detector) left them *)
Levels == {"Unknown", "Low", "Medium", "High", "Critical"}
Scores == {Zero, Frac(1, 2), Frac(85, 100), One}
Instances == {[NewDetector EXCEPT !.threat_level = level, !.confidence_score = score] :
                 level \in Levels, score \in Scores}

(* A fleet of n vehicles with the ids "1" to "n" and two records each.
   The pair of a vehicle is of one kind: 0 it stands still, 1 it stands
   still with one time stamp twice, 2 it jumps 1111.9 m in 1 s, 3 it runs
   1111.9 m in 15 s, 4 it moves 10 m in 10 s and reports 30 m/s. *)
FleetRow(i, t, x, s) ==
    DictRow([psn |-> TextNum(i), localtime |-> TextNum(t), x |-> TextNum(x),
             y |-> TextNum(0), spd |-> s])
FleetPair(i, kind) ==
    CASE kind = 0 -> <<FleetRow(i, 0, 0, EmptyText), FleetRow(i, 1000, 0, EmptyText)>>
      [] kind = 1 -> <<FleetRow(i, 0, 0, EmptyText), FleetRow(i, 0, 0, EmptyText)>>
      [] kind = 2 -> <<FleetRow(i, 0, 0, EmptyText), FleetRow(i, 1000, 100000, EmptyText)>>
      [] kind = 3 -> <<FleetRow(i, 0, 0, EmptyText), FleetRow(i, 15000, 100000, EmptyText)>>
      [] kind = 4 -> <<FleetRow(i, 0, 0, EmptyText), FleetRow(i, 10000, 900, TextNum(30000))>>

(* The kinds of the vehicles of a fleet: all of one kind, every kind in
   turn, or all standing still but the last *)
Mixes == {"still", "tie", "jump", "cycle", "last"}
FleetKind(mix, n, i) ==
    CASE mix = "still" -> 0
      [] mix = "tie" -> 1
      [] mix = "jump" -> 2
      [] mix = "cycle" -> i % 5
      [] mix = "last" -> IF i = n THEN 2 ELSE 0
Fleet(mix, n) ==
    [j \in 1..(2 * n) |->
        FleetPair((j + 1) \div 2, FleetKind(mix, n, (j + 1) \div 2))[2 - (j % 2)]]

PointsValues ==
    {0, 2, 3} \cup {50 * k + j : k \in 1..MaxPointsK, j \in {-1, 0, 1}}

-----------------------------------------------------------------------------
(* State machine *)

NoResult == [pending |-> TRUE]
NoAnswer == [status |-> 0, body |-> "", original_filename |-> <<>>, saved |-> FALSE]

Idle ==
    /\ disk_path = <<>>
    /\ disk_file = MissingFile
    /\ uploaded = FALSE
    /\ http = NoAnswer
    /\ detector = NewDetector
    /\ sybil = NewDetector
    /\ returned = NoResult
    /\ sreturned = NoResult
    /\ tally = NoCounts
    /\ locals = NoLocals

(* An empty table has been uploaded as data.csv *)
Init ==
    /\ disk_path = UploadPath(<<"data", ".", "csv">>)
    /\ disk_file = CsvFile(<<>>)
    /\ uploaded = TRUE
    /\ http = UploadFile(<<"data", ".", "csv">>)
    /\ detector = NewDetector
    /\ sybil = NewDetector
    /\ returned = NoResult
    /\ sreturned = NoResult
    /\ tally = NoCounts
    /\ locals = NoLocals

(* The table grows by one line before it is analysed *)
WriteRow ==
    /\ returned = NoResult
    /\ disk_file.fmt = "csv"
    /\ Len(disk_file.data.rows) < MaxRows
    /\ \E row \in CsvRows : disk_file' = CsvFile(Append(disk_file.data.rows, row))
    /\ UNCHANGED <<disk_path, uploaded, http, detector, sybil, returned, sreturned, tally, locals>>

(* POST /api/upload *)
Upload ==
    /\ disk_path = <<>>
    /\ http = NoAnswer
    /\ \E filename \in Names, file \in SampleFiles :
         /\ http' = UploadFile(filename)
         /\ IF UploadFile(filename).saved
            THEN /\ disk_path' = UploadPath(filename)
                 /\ disk_file' = file
                 /\ uploaded' = TRUE
            ELSE UNCHANGED <<disk_path, disk_file, uploaded>>
    /\ UNCHANGED <<detector, sybil, returned, sreturned, tally, locals>>

(* A caller of the engine names any path, of a file that may not exist *)
Place ==
    /\ disk_path = <<>>
    /\ http = NoAnswer
    /\ \E filepath \in Names \ {<<>>}, file \in SampleFiles \cup {MissingFile} :
         /\ disk_path' = filepath
         /\ disk_file' = file
    /\ UNCHANGED <<uploaded, http, detector, sybil, returned, sreturned, tally, locals>>

(* PositionFalsificationDetector.analyze(disk_path) *)
AnalyzePosition ==
    /\ disk_path # <<>>
    /\ returned = NoResult
    /\ \E out \in PositionOutcomes(detector, disk_path, disk_file) :
           /\ detector' = out.self
           /\ returned' = out.ret
           /\ tally' = out.counts
           /\ locals' = out.locals
    /\ UNCHANGED <<disk_path, disk_file, uploaded, http, sybil, sreturned>>

(* SybilAttackDetector.analyze(disk_path) *)
AnalyzeSybil ==
    /\ disk_path # <<>>
    /\ sreturned = NoResult
    /\ \E out \in {SybilAnalyze(sybil, disk_path, disk_file)} :
           /\ sybil' = out.self
           /\ sreturned' = out.ret
    /\ UNCHANGED <<disk_path, disk_file, uploaded, http, detector, returned, tally, locals>>

(* The threat metrics of analyze on the counters of a finished scan: of
   total_points records, all but the first of each trajectory form a pair,
   and a pair counts at most once for each kind of anomaly. *)
ScoreCounts ==
    /\ tally = NoCounts
    /\ returned = NoResult
    /\ \E tele \in 0..MaxTele, imp \in 0..MaxImp, inc \in 0..MaxInc,
          ts \in 0..MaxTs, rep \in 0..MaxRep, points \in PointsValues :
         /\ tele + imp + rep < Max(1, points)
         /\ inc < Max(1, points)
         /\ ts < Max(1, points)
         /\ tele + imp + inc + ts + rep + points > 0
         /\ tally' = [NoCounts EXCEPT !.teleportations = tele, !.impossible_moves = imp,
                                      !.inconsistent_speeds = inc,
                                      !.timestamp_anomalies = ts,
                                      !.repeated_positions = rep,
                                      !.total_points = points]
         /\ detector' = [detector EXCEPT
                           !.confidence_score = ThreatMetrics(tally').confidence_score,
                           !.threat_level = ThreatMetrics(tally').threat_level]
    /\ UNCHANGED <<disk_path, disk_file, uploaded, http, sybil, returned, sreturned, locals>>

(* A JSON table is stored as data.json: one row of NormRows among
   neighbours *)
PlaceRows ==
    /\ disk_path = <<>>
    /\ \E before, after \in SeqsUpTo(Neighbours, MaxNeighbours), row \in NormRows :
         disk_file' = JsonFile(Table(before \o <<row>> \o after))
    /\ disk_path' = <<"data", ".", "json">>
    /\ UNCHANGED <<uploaded, http, detector, sybil, returned, sreturned, tally, locals>>

(* The files of successive analyses *)
ReusePaths == {<<"data", ".", e>> : e \in {"csv", "CSV", "json", "txt", "log", "pcap"}}

(* One vehicle, 1111.9 m in 30 s *)
Stroll == <<CsvRow("V1", 0, 0, EmptyText), CsvRow("V1", 30000, 100000, EmptyText)>>

ReuseFiles == SampleFiles \cup {MissingFile, CsvFile(Stroll)}

(* The names an upload returns *)
StampedNames == {<<"20260101_120000_">> \o name : name \in ReusePaths}

(* What request.get_json() makes of the body of a request to an analysis
   route.  [json |-> FALSE]: it raises, the body being no JSON.  Else the
   parsed value: null, a list, or a dict with or without the keys filename
   and original_filename (<<>>: the key is absent, <<v>>: it holds v).
   The filename is absent, null, a number, a list, "", "." or the name an
   upload returned. *)
Requests ==
    LET filenames ==
            {<<>>, <<NoneVal>>, <<JsonNum(0)>>, <<JsonNum(7)>>, <<JsonList>>}
            \cup {<<JsonStr(name)>> : name \in StampedNames \cup {<<>>, <<".">>}}
        originals == {<<>>, <<JsonStr(<<"data", ".", "csv">>)>>}
    IN  {[json |-> FALSE], [json |-> TRUE, data |-> NoneVal],
         [json |-> TRUE, data |-> JsonList]}
        \cup {[json |-> TRUE,
               data |-> [kind |-> "dict", filename |-> filename,
                         original_filename |-> original]] :
                 filename \in filenames, original \in originals}

(* POST /api/analyze/position: the route builds its own detector *)
Request ==
    /\ \E filepath \in ReusePaths, file \in ReuseFiles :
         \E out \in PositionOutcomes(NewDetector, filepath, file) :
            /\ disk_path' = filepath
            /\ disk_file' = file
            /\ detector' = out.self
            /\ returned' = out.ret
            /\ tally' = out.counts
            /\ locals' = out.locals
    /\ UNCHANGED <<uploaded, http, sybil, sreturned>>

(* A caller of the engine analyses another file with the detector it has *)
Reanalyze ==
    /\ returned # NoResult
    /\ \E filepath \in ReusePaths, file \in ReuseFiles :
         \E out \in PositionOutcomes(detector, filepath, file) :
            /\ disk_path' = filepath
            /\ disk_file' = file
            /\ detector' = out.self
            /\ returned' = out.ret
            /\ tally' = out.counts
            /\ locals' = out.locals
    /\ UNCHANGED <<uploaded, http, sybil, sreturned>>

(* A table of two records of one vehicle is stored as data.csv *)
WritePair ==
    /\ disk_path = <<>>
    /\ \E first, second \in PairRows : disk_file' = CsvFile(<<first, second>>)
    /\ disk_path' = <<"data", ".", "csv">>
    /\ UNCHANGED <<uploaded, http, detector, sybil, returned, sreturned, tally, locals>>

(* The loop body of the scan on one pair: lines 84-192 with d as dist()
   returned it *)
CheckPair ==
    /\ tally = NoCounts
    /\ locals = NoLocals
    /\ \E d \in PairDists, gap \in PairGaps, spd \in PairReports :
         LET r == [psn |-> TextId("V1"), localtime |-> gap, x |-> 0, y |-> 0, spd |-> spd]
             a1 == TimestampCheck(NoCounts, r.psn, 0, gap)
             dt == ClampDt(gap - 0)
             a2 == SpeedCheck(a1, r.psn, r, d, dt, gap)
             a3 == ExtremeCheck(a2, r.psn, r, d, dt, gap)
         IN  /\ tally' = RepeatCheck(a3, r.psn, d, gap)
             /\ locals' = [stage |-> "pair", d |-> d, gap |-> gap, spd |-> spd]
    /\ UNCHANGED <<disk_path, disk_file, uploaded, http, detector, sybil, returned, sreturned>>

(* A table of two vehicles that hardly move is stored as data.csv *)
WriteStill ==
    /\ disk_path = <<>>
    /\ \E first \in Psns, a, b \in 0..MaxStill, step \in StillSteps :
         disk_file' = CsvFile(StillTable(first, a, b, step))
    /\ disk_path' = <<"data", ".", "csv">>
    /\ UNCHANGED <<uploaded, http, detector, sybil, returned, sreturned, tally, locals>>

(* The track of a hopping vehicle is stored as data.csv *)
WriteHops ==
    /\ disk_path = <<>>
    /\ \E pattern \in HopPatterns, n \in 0..MaxHops, m \in 1..MaxPlaces, gap \in HopGaps :
         disk_file' = CsvFile(Hops(pattern, n, m, gap))
    /\ disk_path' = <<"data", ".", "csv">>
    /\ UNCHANGED <<uploaded, http, detector, sybil, returned, sreturned, tally, locals>>

(* PositionFalsificationDetector._compile_report on an instance *)
CompilePosition ==
    /\ returned = NoResult
    /\ \E self \in Instances, filepath \in ReusePaths :
         /\ detector' = self
         /\ returned' = PositionCompileReport(self, filepath)
    /\ UNCHANGED <<disk_path, disk_file, uploaded, http, sybil, sreturned, tally, locals>>

(* SybilAttackDetector._compile_report on an instance *)
CompileSybil ==
    /\ sreturned = NoResult
    /\ \E self \in Instances, filepath \in ReusePaths :
         /\ sybil' = SybilDefaults(self)
         /\ sreturned' = SybilCompileReport(SybilDefaults(self), filepath)
    /\ UNCHANGED <<disk_path, disk_file, uploaded, http, detector, returned, tally, locals>>

(* The records of a fleet are stored as data.csv *)
WriteFleet ==
    /\ disk_path = <<>>
    /\ \E mix \in Mixes, n \in 0..MaxFleet : disk_file' = CsvFile(Fleet(mix, n))
    /\ disk_path' = <<"data", ".", "csv">>
    /\ UNCHANGED <<uploaded, http, detector, sybil, returned, sreturned, tally, locals>>

(* POST /api/upload of a sample file under a name that is allowed *)
UploadSample ==
    /\ disk_path = <<>>
    /\ http = NoAnswer
    /\ \E filename \in ReusePaths, file \in SampleFiles \cup {CsvFile(Stroll)} :
         /\ http' = UploadFile(filename)
         /\ disk_path' = UploadPath(filename)
         /\ disk_file' = file
         /\ uploaded' = TRUE
    /\ UNCHANGED <<detector, sybil, returned, sreturned, tally, locals>>

(* POST /api/analyze/position or /api/analyze/sybil, down to os.path.exists *)
Receive ==
    /\ "route" \notin DOMAIN http
    /\ \E route \in {"position", "sybil"}, request \in Requests :
         http' = CheckRequest(route, request, disk_path)
    /\ UNCHANGED <<disk_path, disk_file, uploaded, detector, sybil, returned, sreturned,
                   tally, locals>>

(* The rest of the route: its own detector analyses the file as it is now,
   and the result goes into the answer *)
Respond ==
    /\ "route" \in DOMAIN http
    /\ http.status = 0
    /\ LET filepath == UploadFolder \o http.request.data.filename[1].path
           file == FileAt(disk_path, disk_file, filepath)
       IN  IF http.route = "position"
           THEN /\ \E out \in PositionOutcomes(NewDetector, filepath, file) :
                      /\ detector' = out.self
                      /\ returned' = out.ret
                      /\ tally' = out.counts
                      /\ locals' = out.locals
                      /\ http' = RouteAnswer(http.route, http.request, out.ret)
                /\ UNCHANGED <<sybil, sreturned>>
           ELSE /\ \E out \in {SybilAnalyze(NewDetector, filepath, file)} :
                      /\ sybil' = out.self
                      /\ sreturned' = out.ret
                      /\ http' = RouteAnswer(http.route, http.request, out.ret)
                /\ UNCHANGED <<detector, returned, tally, locals>>
    /\ UNCHANGED <<disk_path, disk_file, uploaded>>

(* DELETE /api/cleanup/<filename>, from another client *)
CleanupFile ==
    /\ locals = NoLocals
    /\ \E filename \in StampedNames :
         LET answer == CleanupAnswer(disk_path, filename)
         IN  /\ locals' = answer
             /\ IF answer.removed
                THEN disk_path' = <<>> /\ disk_file' = MissingFile
                ELSE UNCHANGED <<disk_path, disk_file>>
    /\ UNCHANGED <<uploaded, http, detector, sybil, returned, sreturned, tally>>

Next == WriteRow \/ AnalyzePosition

Spec == Init /\ [][Next]_vars

NextFile == Upload \/ Place \/ AnalyzePosition \/ AnalyzeSybil

SpecFile == Idle /\ [][NextFile]_vars

NextNorm == PlaceRows \/ AnalyzePosition

SpecNorm == Idle /\ [][NextNorm]_vars

NextReuse == Request \/ Reanalyze

SpecReuse == Idle /\ [][NextReuse]_vars

NextPair == WritePair \/ AnalyzePosition

SpecPair == Idle /\ [][NextPair]_vars

NextCheck == CheckPair

SpecCheck == Idle /\ [][NextCheck]_vars

NextRepeat == WriteStill \/ AnalyzePosition

SpecRepeat == Idle /\ [][NextRepeat]_vars

NextHot == WriteHops \/ AnalyzePosition

SpecHot == Idle /\ [][NextHot]_vars

NextReport == CompilePosition \/ CompileSybil

SpecReport == Idle /\ [][NextReport]_vars

NextFleet == WriteFleet \/ AnalyzePosition

SpecFleet == Idle /\ [][NextFleet]_vars

NextHttp == UploadSample \/ Receive \/ Respond \/ CleanupFile

SpecHttp == Idle /\ [][NextHttp]_vars

NextScore == ScoreCounts

SpecScore == Idle /\ [][NextScore]_vars

-----------------------------------------------------------------------------
(* Vocabulary of the properties *)

IsErrorObject(r) == DOMAIN r = {"error", "message", "timestamp"} /\ r.error = TRUE
IsReport(r) == {"status", "findings", "threat_level", "confidence_score"} \subseteq DOMAIN r
               /\ r.status = "completed"
Unsupported == "ValueError: Unsupported file format"

Rows == disk_file.data.rows

(* A line of the table that carries all four required cells *)
Complete(row) ==
    /\ row.kind = "dict"
    /\ \A k \in {"psn", "localtime", "x", "y"} : k \in DOMAIN row.d /\ row.d[k].s # ""

(* The lines of vehicle p, and their time stamps *)
RecordsOf(p) == {i \in 1..Len(Rows) : Complete(Rows[i]) /\ Rows[i].d.psn.s = p}
TimesOf(p) == {Rows[i].d.localtime.n : i \in RecordsOf(p)}
Records == UNION {RecordsOf(p) : p \in Psns}
Seen == {p \in Psns : RecordsOf(p) # {}}

RECURSIVE SumOver(_, _)
SumOver(S, f) ==
    IF S = {} THEN 0
    ELSE LET e == CHOOSE e \in S : TRUE IN f[e] + SumOver(S \ {e}, f)

Rank(level) ==
    CASE level = "Unknown" -> 0
      [] level = "Low" -> 1
      [] level = "Medium" -> 2
      [] level = "High" -> 3
      [] level = "Critical" -> 4

-----------------------------------------------------------------------------
(* C1: whatever the path and the file (any extension, any content, readable
   or not), each of the two analyze methods returns either a completed
   report or an error object with exactly the fields error = true, message
   and timestamp; no exception leaves analyze. *)
C1_NoExceptionEscapes ==
    /\ returned # NoResult => IsReport(returned) \/ IsErrorObject(returned)
    /\ sreturned # NoResult => IsReport(sreturned) \/ IsErrorObject(sreturned)

(* A JSON file that is no table: the position analyzer fails inside the
   analysis, the Sybil analyzer completes. *)
C1_Witness ==
    /\ IsErrorObject(returned)
    /\ returned.message = "TypeError"
    /\ IsReport(sreturned)

(* C2: a table without any record after normalisation gives a completed
   report, not an error object, with total_positions_analyzed = 0,
   threat_level "Unknown" and confidence_score 0.0. *)
C2_EmptyTableUnknown ==
    (returned # NoResult /\ Records = {}) =>
        /\ IsReport(returned)
        /\ returned.findings.total_positions_analyzed = 0
        /\ returned.threat_level = "Unknown"
        /\ returned.confidence_score = Zero

C2_Witness ==
    /\ IsReport(returned)
    /\ Len(Rows) = 2
    /\ Records = {}

(* C3: with total_points > 0 the threat level is the first match of:
   Critical if teleportations > 5 or teleportations / total_points > 0.01;
   High if teleportations > 0 or impossible_speeds > 10 or
   impossible_speeds / total_points > 0.02; Medium if impossible_speeds > 0
   or inconsistent_speeds > 20; Low otherwise; it is never Unknown. *)
C3_ThreatLevelFirstMatch ==
    LET n == tally.total_points
        tele == tally.teleportations
        imp == tally.impossible_moves
        inc == tally.inconsistent_speeds
        expected ==
            CASE tele > 5 \/ 100 * tele > n -> "Critical"
              [] ~(tele > 5 \/ 100 * tele > n)
                 /\ (tele > 0 \/ imp > 10 \/ 50 * imp > n) -> "High"
              [] ~(tele > 0 \/ 50 * imp > n \/ imp > 10)
                 /\ (imp > 0 \/ inc > 20) -> "Medium"
              [] OTHER -> "Low"
    IN  n > 0 => detector.threat_level = expected /\ detector.threat_level # "Unknown"

(* High is decided by impossible_speeds > 10 alone *)
C3_Witness ==
    /\ tally.teleportations = 0
    /\ tally.impossible_moves = 11
    /\ 50 * tally.impossible_moves <= tally.total_points
    /\ detector.threat_level = "High"

(* C4: one vehicle with exactly two records whose computed speed exceeds
   100 m/s gives teleportations = 1, total_points = 2 and threat level
   Critical; and every run with teleportations >= 1 and
   total_points < 100 * teleportations is Critical (for the reports of the
   tables, and for the threat metrics on every count of the bounds, which
   are evaluated in the states of the empty table). *)
C4_TeleportIsCritical ==
    /\ (returned # NoResult /\ Cardinality(Records) = 2 /\ Cardinality(Seen) = 1
        /\ \E i, j \in Records :
             /\ i # j
             /\ Dist(<<Rows[i].d.y.n, Rows[i].d.x.n>>, <<Rows[j].d.y.n, Rows[j].d.x.n>>)
                  > 100 * Max(Abs(Rows[j].d.localtime.n - Rows[i].d.localtime.n), 100))
       => /\ IsReport(returned)
          /\ returned.findings.teleportations = 1
          /\ returned.findings.total_positions_analyzed = 2
          /\ returned.threat_level = "Critical"
    /\ (IsReport(returned) /\ returned.findings.teleportations >= 1
        /\ returned.findings.total_positions_analyzed
             < 100 * returned.findings.teleportations)
       => returned.threat_level = "Critical"
    /\ Rows = <<>> =>
         \A t \in 1..MaxTele, n \in PointsValues, i \in 0..1 :
            (t + i < n /\ n < 100 * t) =>
               ThreatMetrics([NoCounts EXCEPT !.teleportations = t,
                                              !.impossible_moves = i,
                                              !.total_points = n]).threat_level
                 = "Critical"

(* 1111.9 m in 10 s, the time stamps increasing *)
C4_Witness ==
    /\ IsReport(returned)
    /\ Cardinality(Records) = 2
    /\ Cardinality(Seen) = 1
    /\ returned.findings.teleportations = 1
    /\ returned.findings.timestamp_anomalies = 0
    /\ returned.threat_level = "Critical"

(* C5: with total_points > 0 fixed and impossible_speeds, inconsistent_speeds
   and timestamp_anomalies all 0, the threat level never decreases (in the
   order Low < Medium < High < Critical) as teleportations goes 0, 1, ..., 6;
   it is Low at 0 and Critical at 6.  In a state whose count of
   teleportations is t, the level computed from it is compared with the
   levels of t+1, ..., 6 on the same total_points. *)
C5_MonotonicInTeleportations ==
    LET t == tally.teleportations
        level(k) == ThreatMetrics([tally EXCEPT !.teleportations = k]).threat_level
    IN  (tally.total_points > 0 /\ t <= 6
         /\ tally.impossible_moves = 0 /\ tally.inconsistent_speeds = 0
         /\ tally.timestamp_anomalies = 0)
        => /\ \A k \in (t + 1)..6 : Rank(detector.threat_level) <= Rank(level(k))
           /\ t = 0 => detector.threat_level = "Low"
           /\ t = 6 => detector.threat_level = "Critical"

(* Five teleportations in 501 points: High, below Critical *)
C5_Witness ==
    /\ tally.teleportations = 5
    /\ tally.total_points = 501
    /\ tally.impossible_moves = 0
    /\ tally.inconsistent_speeds = 0
    /\ tally.timestamp_anomalies = 0
    /\ detector.threat_level = "High"

(* C6: with total_points > 0, confidence_score = min(1, 10 * a / total_points)
   where a = teleportations + impossible_speeds + inconsistent_speeds
   + timestamp_anomalies, the repeated positions not counted; and
   0 <= confidence_score <= 1.  The score is the fraction num / den. *)
C6_ConfidenceScore ==
    LET a == tally.teleportations + tally.impossible_moves
             + tally.inconsistent_speeds + tally.timestamp_anomalies
        n == tally.total_points
        c == detector.confidence_score
    IN  /\ c.den > 0 /\ 0 <= c.num /\ c.num <= c.den
        /\ n > 0 => IF 10 * a >= n THEN c.num = c.den
                    ELSE c.num * n = 10 * a * c.den

(* Repeated positions next to anomalies, the score below 1 *)
C6_Witness ==
    LET a == tally.teleportations + tally.impossible_moves
             + tally.inconsistent_speeds + tally.timestamp_anomalies
    IN  /\ tally.repeated_positions > 0
        /\ a > 0
        /\ 10 * a < tally.total_points
        /\ detector.confidence_score.num * tally.total_points
             = 10 * a * detector.confidence_score.den

(* C7: in every analysed table, each record whose time stamp does not exceed
   that of its predecessor in the trajectory (the records of its vehicle in
   ascending time) gives exactly one non_increasing_timestamp anomaly,
   whatever the coordinates and speeds: for a vehicle of two records or
   more these are its records less its distinct time stamps, and
   timestamp_anomalies and the anomalies of that type both count them. *)
C7_OneAnomalyPerNonIncreasingPair ==
    LET pairs == SumOver(Seen, [p \in Seen |->
                                  Cardinality(RecordsOf(p)) - Cardinality(TimesOf(p))])
    IN  IsReport(returned) =>
          /\ returned.findings.timestamp_anomalies = pairs
          /\ Cardinality({i \in DOMAIN tally.anomalies :
                             tally.anomalies[i].type = "non_increasing_timestamp"})
               = pairs

(* Equal time stamps, 1111.9 m apart, with a reported speed of 30 m/s: the
   pair is a timestamp anomaly, a teleportation and a speed inconsistency *)
C7_Witness ==
    /\ IsReport(returned)
    /\ returned.findings.timestamp_anomalies = 1
    /\ returned.findings.teleportations = 1
    /\ returned.findings.inconsistent_speeds = 1

(* C8, as claimed: every record with a vehicle id is counted in
   total_positions_analyzed, the single record of a one-record vehicle
   included, and its vehicle in total_vehicles. *)
C8_EveryRecordCounted ==
    IsReport(returned) =>
        /\ returned.findings.total_positions_analyzed = Cardinality(Records)
        /\ returned.findings.total_vehicles = Cardinality(Seen)

(* C8, amended: total_positions_analyzed counts every record of the vehicles
   with two records or more, the first of each trajectory included; a
   vehicle with fewer than two records contributes no anomaly, is counted
   in total_vehicles and its record is not counted in
   total_positions_analyzed. *)
C8_RecordsOfScannedVehicles ==
    LET scanned == {p \in Seen : Cardinality(RecordsOf(p)) >= 2}
    IN  IsReport(returned) =>
          /\ returned.findings.total_positions_analyzed
               = SumOver(scanned, [p \in scanned |-> Cardinality(RecordsOf(p))])
          /\ returned.findings.total_vehicles = Cardinality(Seen)
          /\ \A p \in Seen \ scanned :
                /\ \A i \in DOMAIN tally.anomalies : tally.anomalies[i].psn.s # p
                /\ \A v \in tally.affected_vehicles : v.s # p
          /\ scanned = {} => returned.findings.anomalous_positions = 0

(* Two records of one vehicle and one record of another *)
C8_Witness ==
    /\ IsReport(returned)
    /\ Cardinality(RecordsOf("V1")) = 2
    /\ Cardinality(RecordsOf("V2")) = 1
    /\ returned.findings.total_positions_analyzed = 2
    /\ returned.findings.total_vehicles = 2

(* The extension of a path as the properties read it: the tokens after the
   last ".", the whole path when it has none *)
ExtensionTokens(path) ==
    LET dots == {i \in 1..Len(path) : path[i] = "."}
    IN  IF dots = {} THEN path
        ELSE LET last == CHOOSE i \in dots : \A j \in dots : j <= i
             IN  SubSeq(path, last + 1, Len(path))

(* The spellings of csv, json, txt and log among the tokens of the names *)
CsvSpellings == {<<"csv">>, <<"CSV">>}
JsonSpellings == {<<"json">>}
LineSpellings == {<<"txt">>, <<"log">>}

(* C9: when the extension of the path (the text after the last ".", compared
   without regard to case; the whole path when it has no ".") is none of
   csv, json, txt, log, both analyzers return the error object of the
   unsupported format, which carries no findings; when it is one of them
   the file is read by the reader of that extension: no unsupported-format
   error, a missing file is the reader's error, a json path fails on a file
   that is no JSON document and the analyzers complete on the vehicle table
   under csv and json, while the lines of a txt or log file never become
   records. *)
C9_ExtensionDispatch ==
    LET ext == ExtensionTokens(disk_path)
        supported == ext \in CsvSpellings \cup JsonSpellings \cup LineSpellings
    IN  /\ returned # NoResult =>
            IF ~supported
            THEN IsErrorObject(returned) /\ returned.message = Unsupported
            ELSE /\ IsErrorObject(returned) => returned.message # Unsupported
                 /\ ~disk_file.readable =>
                        IsErrorObject(returned) /\ returned.message = "FileNotFoundError"
                 /\ (ext \in JsonSpellings /\ disk_file.readable /\ disk_file.fmt # "json") =>
                        IsErrorObject(returned) /\ returned.message = "JSONDecodeError"
                 /\ (disk_file = CsvFile(Teleport) /\ ext \in CsvSpellings) =>
                        IsReport(returned) /\ returned.findings.teleportations = 1
                 /\ (disk_file = JsonFile(Table(Teleport)) /\ ext \in JsonSpellings) =>
                        IsReport(returned) /\ returned.findings.teleportations = 1
                 /\ (ext \in LineSpellings /\ IsReport(returned)) =>
                        returned.findings.total_positions_analyzed = 0
        /\ sreturned # NoResult =>
            IF ~supported
            THEN IsErrorObject(sreturned)
                 /\ sreturned.message = <<"Analysis failed", Unsupported>>
            ELSE /\ IsErrorObject(sreturned) =>
                        sreturned.message # <<"Analysis failed", Unsupported>>
                 /\ ~disk_file.readable =>
                        IsErrorObject(sreturned)
                        /\ sreturned.message = <<"Analysis failed", "FileNotFoundError">>
                 /\ (ext \in JsonSpellings /\ disk_file.readable /\ disk_file.fmt # "json") =>
                        IsErrorObject(sreturned)
                        /\ sreturned.message = <<"Analysis failed", "JSONDecodeError">>
                 /\ (disk_file.readable /\ ext \notin JsonSpellings) => IsReport(sreturned)

(* An upper-case CSV extension, read by the CSV reader *)
C9_Witness ==
    /\ ExtensionTokens(disk_path) = <<"CSV">>
    /\ "." \in Range(disk_path)
    /\ disk_file = CsvFile(Teleport)
    /\ IsReport(returned)
    /\ returned.findings.teleportations = 1

(* C10: a file that the upload accepted (its stored name keeps the
   extension) is never rejected by an analyzer as an unsupported format. *)
C10_AcceptedIsReadable ==
    (uploaded /\ "." \in Range(disk_path)) =>
        /\ returned # NoResult => ~(IsErrorObject(returned) /\ returned.message = Unsupported)
        /\ sreturned # NoResult =>
              ~(IsErrorObject(sreturned)
                /\ sreturned.message = <<"Analysis failed", Unsupported>>)

(* C11: a .txt or .log file whose lines are well-formed position records is
   normalised into a non-empty sequence of records that reaches the
   position analysis. *)
C11_TextLinesBecomeRecords ==
    (returned # NoResult /\ ExtensionTokens(disk_path) \in LineSpellings
     /\ disk_file \in {TextFile(KeyedLines), TextFile(BareLines)})
    => /\ IsReport(returned)
       /\ locals.data # <<>>
       /\ returned.findings.total_vehicles > 0

(* Field resolution as the properties state it: a value is given when it is
   present, non-empty and, for a numeric field, parseable as a number; a
   field resolves to the value of the first synonym key, in the order of
   the key list, whose value is given. *)
Given(v, numeric) ==
    CASE v.kind = "text" -> v.s # "" /\ (numeric => v.num)
      [] v.kind = "number" -> TRUE
      [] OTHER -> FALSE

FirstGiven(d, keys, numeric) ==
    LET hits == {i \in 1..Len(keys) : keys[i] \in DOMAIN d /\ Given(d[keys[i]], numeric)}
    IN  IF hits = {} THEN <<>>
        ELSE <<d[keys[CHOOSE i \in hits : \A j \in hits : i <= j]]>>

AllFourResolve(row) ==
    /\ row.kind = "dict"
    /\ FirstGiven(row.d, PsnKeys, FALSE) # <<>>
    /\ FirstGiven(row.d, TimeKeys, TRUE) # <<>>
    /\ FirstGiven(row.d, XKeys, TRUE) # <<>>
    /\ FirstGiven(row.d, YKeys, TRUE) # <<>>

ResolvedRecord(row) ==
    LET spd == FirstGiven(row.d, SpdKeys, TRUE)
    IN  [psn |-> FirstGiven(row.d, PsnKeys, FALSE)[1],
         localtime |-> FirstGiven(row.d, TimeKeys, TRUE)[1].n,
         x |-> FirstGiven(row.d, XKeys, TRUE)[1].n,
         y |-> FirstGiven(row.d, YKeys, TRUE)[1].n,
         spd |-> IF spd = <<>> THEN <<>> ELSE <<spd[1].n>>]

(* C12: normalisation keeps a row if and only if its four required fields
   resolve: it never raises, the rows it keeps are as many as the rows of
   the table whose vehicle id, time stamp, longitude and latitude all
   resolve, each kept row carries the four, the other rows are dropped
   whatever their neighbours, and the speed plays no part. *)
C12_KeptIffFourResolve ==
    returned # NoResult =>
        /\ IsReport(returned)
        /\ Len(locals.data) = Len(SelectSeq(Rows, AllFourResolve))
        /\ \A j \in DOMAIN locals.data : Given(locals.data[j].psn, FALSE)

(* C19: each field of a record is the value of the first synonym key whose
   value is present, non-empty and (numeric fields) parseable, earlier keys
   with an empty or unparseable value being skipped; the number zero counts
   as a value, given as text or as a number. *)
C19_FirstGivenValueWins ==
    returned # NoResult =>
        LET kept == SelectSeq(Rows, AllFourResolve)
        IN  locals.data = [j \in 1..Len(kept) |-> ResolvedRecord(kept[j])]

(* C13: no hidden state.  Whatever was analysed before, on the same detector
   or by other requests, the report of an analysis is the report that a
   new detector gives for the analysed file, and so are the normalised
   records; normalising the rows again gives the same records, and the rows
   that were read are the rows of the file, unmodified. *)
C13_NoHiddenState ==
    returned # NoResult =>
        LET fresh == PositionAnalyze(NewDetector, disk_path, disk_file)
            read == ReadFile(disk_path, disk_file)
        IN  /\ returned = fresh.ret
            /\ locals = fresh.locals
            /\ locals.stage = "scan" =>
                  /\ locals.raw = read.val.rows
                  /\ NormalizeData(Table(locals.raw)) = Ok(locals.data)

(* An analysis that failed on a detector which had reported Critical
   before: the instance still holds the earlier results *)
C13_Witness ==
    /\ IsErrorObject(returned)
    /\ detector.threat_level = "Critical"
    /\ detector.results # <<>>

(* C14: grouping partitions the normalised records by vehicle id: the
   trajectory of a vehicle is made of the records with its id, all of them
   and in input order, every record is in the trajectory of its id and the
   lines without an id are in none; and each trajectory is then ordered by
   ascending time stamp, records of equal time stamp staying in input
   order: the record at input position i of its trajectory stands after
   those of smaller time stamp and those of equal time stamp before it. *)
C14_PartitionAndStableSort ==
    locals.stage = "scan" =>
        LET data == locals.data
            ids == {data[i].psn : i \in DOMAIN data}
            Of(p) == LET Is(r) == r.psn = p IN SelectSeq(data, Is)
            RankOf(rows, i) ==
                1 + Cardinality({j \in DOMAIN rows :
                                    \/ rows[j].localtime < rows[i].localtime
                                    \/ rows[j].localtime = rows[i].localtime /\ j < i})
        IN  /\ Range(locals.vehicles.order) = ids
            /\ Len(locals.vehicles.order) = Cardinality(ids)
            /\ Len(data) = Cardinality(Records)
            /\ SumOver(ids, [p \in ids |-> Len(locals.vehicles.rows[p])]) = Len(data)
            /\ \A p \in ids :
                 /\ locals.vehicles.rows[p] = Of(p)
                 /\ Len(locals.rows_sorted[p]) = Len(Of(p))
                 /\ \A i \in DOMAIN Of(p) :
                       locals.rows_sorted[p][RankOf(Of(p), i)] = Of(p)[i]

(* Two records of one vehicle with the same time stamp at different places,
   a later line of the file carrying an earlier time stamp, and a line
   without an id *)
C14_Witness ==
    /\ locals.stage = "scan"
    /\ Len(Rows) = 3
    /\ \E p \in DOMAIN locals.rows_sorted :
          /\ Len(locals.rows_sorted[p]) = 2
          /\ locals.rows_sorted[p][1].localtime = locals.rows_sorted[p][2].localtime
          /\ locals.rows_sorted[p][1].x # locals.rows_sorted[p][2].x
    /\ Len(locals.data) = 2

(* C15: the findings of a position report carry the list of the anomalies
   that were emitted (each with its kind, vehicle id, time stamp), not only
   their counts. *)
C15_FindingsCarryAnomalies ==
    (IsReport(returned) /\ tally.anomalies # <<>>) =>
        /\ "anomalies" \in DOMAIN returned.findings
        /\ returned.findings.anomalies = tally.anomalies

(* The pair of vehicles a and b is among the cloned trajectories of the
   Sybil findings *)
ClonedPairReported(findings, a, b) ==
    /\ "cloned_trajectory_nodes" \in DOMAIN findings
    /\ {a, b} \in findings.cloned_trajectory_nodes

(* C16: for two vehicles whose trajectories agree index by index (same
   position, speed and heading) on 5 samples the Sybil findings contain the
   pair as a cloned-trajectory match; with 4 samples they do not. *)
C16_ClonedPairReported ==
    (IsReport(sreturned) /\ ExtensionTokens(disk_path) \in CsvSpellings) =>
        /\ disk_file = CsvFile(Cloned(5)) => ClonedPairReported(sreturned.findings, "V1", "V2")
        /\ disk_file = CsvFile(Cloned(4)) => ~ClonedPairReported(sreturned.findings, "V1", "V2")

(* C17: the threat level and the confidence score of a Sybil report are a
   row of the lookup on the total of the findings: Critical with 0.95, High
   with 0.88, Medium with 0.75 or Low with 0.60. *)
C17_SybilScoreLookup ==
    IsReport(sreturned) =>
        <<sreturned.threat_level, sreturned.confidence_score>>
            \in {<<"Critical", Frac(95, 100)>>, <<"High", Frac(88, 100)>>,
                 <<"Medium", Frac(75, 100)>>, <<"Low", Frac(60, 100)>>}

(* C18: the Sybil report of an empty table has zero vehicles analysed,
   threat level Unknown and confidence score 0.0; no exception is raised. *)
C18_SybilEmptyTableUnknown ==
    (sreturned # NoResult /\ disk_file = CsvFile(<<>>)
     /\ ExtensionTokens(disk_path) \in CsvSpellings) =>
        /\ IsReport(sreturned)
        /\ sreturned.findings.total_vehicles_analyzed = 0
        /\ sreturned.threat_level = "Unknown"
        /\ sreturned.confidence_score = Zero

(* C20: the computed speed of a pair is distance / max(dt, 0.1 s): in a table
   of two records of one vehicle, d millimetres and dt milliseconds apart
   in the order of their time stamps, the pair is a teleportation when
   d / max(dt, 100) exceeds 100 m/s, an impossible speed when it exceeds
   50 m/s and not 100, a speed inconsistency when the later record reports
   a speed above 0.1 m/s, the computed speed is above 0.1 m/s and one is
   more than twice the other, and a repeated position when d is under
   0.1 m; and a pair with dt <= 0 is a timestamp anomaly on which these
   checks are made all the same. *)
C20_SpeedOverClampedDt ==
    (IsReport(returned) /\ Len(Rows) = 2) =>
        LET a == Rows[1].d
            b == Rows[2].d
            prev == IF b.localtime.n < a.localtime.n THEN b ELSE a
            curr == IF b.localtime.n < a.localtime.n THEN a ELSE b
            dt == curr.localtime.n - prev.localtime.n
            m == IF dt < 100 THEN 100 ELSE dt
            d == Dist(<<prev.y.n, prev.x.n>>, <<curr.y.n, curr.x.n>>)
            spd == curr.spd.n
            f == returned.findings
            One01(cond) == IF cond THEN 1 ELSE 0
        IN  /\ f.total_positions_analyzed = 2
            /\ f.timestamp_anomalies = One01(dt <= 0)
            /\ f.teleportations = One01(d > 100 * m)
            /\ f.impossible_movements = One01(d > 50 * m /\ d <= 100 * m)
            /\ f.repeated_positions = One01(d < 100)
            /\ f.inconsistent_speeds =
                 One01(/\ curr.spd.s # ""
                       /\ spd > 100
                       /\ 10 * d > m
                       /\ Max(spd * m, 1000 * d) > 2 * Min(spd * m, 1000 * d))

(* 6 m at the same time stamp: a timestamp anomaly, and 60 m/s over the
   floor of 0.1 s, an impossible speed *)
C20_Witness ==
    /\ IsReport(returned)
    /\ Len(Rows) = 2
    /\ returned.findings.timestamp_anomalies = 1
    /\ returned.findings.impossible_movements = 1
    /\ returned.findings.teleportations = 0

(* C21: the extreme-speed classification of a pair is exclusive and its
   thresholds are strict.  With the computed speed d / max(dt, 0.1 s): above
   100 m/s the pair counts one teleportation and no impossible speed; above
   50 and up to 100 m/s one impossible speed and no teleportation; up to
   50 m/s neither; so a pair without movement counts neither.  The event is
   one anomaly entry of that type and one incident of one hotspot. *)
C21_ExclusiveStrictThresholds ==
    locals.stage = "pair" =>
        LET d == locals.d
            m == IF locals.gap < 100 THEN 100 ELSE locals.gap
            OfType(type) == {i \in DOMAIN tally.anomalies : tally.anomalies[i].type = type}
            tele == IF d > 100 * m THEN 1 ELSE 0
            imp == IF d > 50 * m /\ d <= 100 * m THEN 1 ELSE 0
        IN  /\ tele + imp <= 1
            /\ tally.teleportations = tele
            /\ tally.impossible_moves = imp
            /\ Cardinality(OfType("teleportation")) = tele
            /\ Cardinality(OfType("impossible_speed")) = imp
            /\ Len(tally.geographic_hotspots) = tele + imp
            /\ d = 0 => tally.teleportations = 0 /\ tally.impossible_moves = 0

(* Exactly 100 m/s is an impossible speed and no teleportation, exactly
   50 m/s is neither *)
C21_Witness ==
    /\ locals.stage = "pair"
    /\ \/ /\ locals.d = 100 * locals.gap
          /\ locals.gap >= 100
          /\ tally.impossible_moves = 1
       \/ /\ locals.d = 50 * locals.gap
          /\ locals.gap >= 100
          /\ tally.impossible_moves = 0
          /\ tally.teleportations = 0

(* C22: a pair counts an inconsistent speed exactly when the record reports
   a speed, the reported speed and the computed speed d / max(dt, 0.1 s)
   both exceed 0.1 m/s, and the larger of the two is more than twice the
   smaller: no reported speed, a speed of 0.1 m/s or less on either side,
   or a ratio of exactly 2 give none. *)
C22_InconsistentSpeed ==
    locals.stage = "pair" =>
        LET d == locals.d
            m == IF locals.gap < 100 THEN 100 ELSE locals.gap
            reported == locals.spd # <<>>
            rep == locals.spd[1] * m
            comp == 1000 * d
            both == reported /\ locals.spd[1] > 100 /\ 10 * d > m
        IN  /\ ~reported => tally.inconsistent_speeds = 0
            /\ (reported /\ ~both) => tally.inconsistent_speeds = 0
            /\ both => /\ tally.inconsistent_speeds \in {0, 1}
                       /\ tally.inconsistent_speeds = 1 <=> (rep > 2 * comp \/ comp > 2 * rep)
                       /\ (rep = 2 * comp \/ comp = 2 * rep) => tally.inconsistent_speeds = 0

(* A reported speed of exactly twice, or half, the computed speed *)
C22_Witness ==
    /\ locals.stage = "pair"
    /\ locals.spd # <<>>
    /\ locals.d > 0
    /\ locals.spd[1] > 100
    /\ \/ locals.spd[1] * (IF locals.gap < 100 THEN 100 ELSE locals.gap) = 2000 * locals.d
       \/ 2 * locals.spd[1] * (IF locals.gap < 100 THEN 100 ELSE locals.gap) = 1000 * locals.d
    /\ tally.inconsistent_speeds = 0

(* The pairs of consecutive records of vehicle p that are less than 0.1 m
   apart, in a table that holds the records of a vehicle one after the
   other in ascending time *)
StillPairs(p) ==
    Cardinality({i \in RecordsOf(p) :
                    /\ i + 1 \in RecordsOf(p)
                    /\ Dist(<<0, Rows[i].d.x.n>>, <<0, Rows[i + 1].d.x.n>>) < 100})

(* C23: the repeated positions are counted by one counter for all the
   vehicles of a run, and one repeated_position anomaly is emitted each
   time the counter reaches a multiple of 10: a run with k pairs less than
   0.1 m apart counts k repeated positions and emits k div 10 anomalies,
   the j-th for the vehicle whose pair is the (10 * j)-th of the run. *)
C23_EveryTenthRepeat ==
    (IsReport(returned) /\ Len(Rows) > 0) =>
        LET first == Rows[1].d.psn.s
            k == SumOver(Seen, [p \in Seen |-> StillPairs(p)])
            emitted == SelectSeq(tally.anomalies, LAMBDA e : e.type = "repeated_position")
        IN  /\ returned.findings.repeated_positions = k
            /\ tally.repeated_positions = k
            /\ Len(emitted) = k \div 10
            /\ \A j \in 1..Len(emitted) :
                  emitted[j].psn.s = first <=> 10 * j <= StillPairs(first)

(* 6 and 12 records: the 10th of the 16 pairs is a pair of the second
   vehicle, which has 11 pairs only *)
C23_Witness ==
    /\ IsReport(returned)
    /\ Len(Rows) = 18
    /\ StillPairs(Rows[1].d.psn.s) = 5
    /\ StillPairs(Rows[18].d.psn.s) = 11
    /\ Len(SelectSeq(tally.anomalies, LAMBDA e : e.type = "repeated_position")) = 1
    /\ tally.anomalies[1].psn.s = Rows[18].d.psn.s

(* The records of a one-vehicle track (in ascending time) at which a
   teleportation or an impossible speed happens: more than 50 m/s from the
   record before, over max(dt, 0.1 s); and the bucket of a record, its
   longitude in units of 0.0001 degree *)
HotEvents ==
    {i \in 2..Len(Rows) :
        LET dt == Rows[i].d.localtime.n - Rows[i - 1].d.localtime.n
        IN  Dist(<<0, Rows[i - 1].d.x.n>>, <<0, Rows[i].d.x.n>>)
              > 50 * (IF dt < 100 THEN 100 ELSE dt)}
BucketOf(i) == (Rows[i].d.x.n + 500) \div 1000
HotBuckets == {BucketOf(i) : i \in HotEvents}
HotCount(b) == Cardinality({i \in HotEvents : BucketOf(i) = b})

(* C24: each teleportation and each impossible speed adds one incident to
   the bucket of the location of its record (rounded to 0.0001 degree),
   and nothing else does; the reported list holds at most 10 buckets, in
   non-increasing order of their counts, none left out has more incidents
   than one that is listed; with 10 buckets or fewer all are listed and
   their counts sum to teleportations + impossible_movements. *)
C24_Hotspots ==
    IsReport(returned) =>
        LET list == returned.findings.geographic_hotspots
            listed == {list[j].lon : j \in DOMAIN list}
            f == returned.findings
        IN  /\ Len(list) = IF Cardinality(HotBuckets) > 10 THEN 10 ELSE Cardinality(HotBuckets)
            /\ Cardinality(listed) = Len(list)
            /\ listed \subseteq HotBuckets
            /\ \A j \in DOMAIN list :
                  /\ list[j].lat = 0
                  /\ list[j].incident_count = HotCount(list[j].lon)
                  /\ j > 1 => list[j - 1].incident_count >= list[j].incident_count
                  /\ \A b \in HotBuckets \ listed : HotCount(b) <= list[j].incident_count
            /\ Cardinality(HotEvents) = f.teleportations + f.impossible_movements
            /\ Cardinality(HotBuckets) <= 10 =>
                  SumOver(DOMAIN list, [j \in DOMAIN list |-> list[j].incident_count])
                    = f.teleportations + f.impossible_movements

(* 11 buckets, the two visited last with 3 and 2 incidents: they head the
   list and one bucket of a single incident is left out *)
C24_Witness ==
    /\ IsReport(returned)
    /\ Cardinality(HotBuckets) = 11
    /\ Len(returned.findings.geographic_hotspots) = 10
    /\ returned.findings.geographic_hotspots[1].incident_count = 3
    /\ returned.findings.geographic_hotspots[2].incident_count = 2
    /\ returned.findings.geographic_hotspots[1].lon = BucketOf(Len(Rows))
    /\ returned.findings.inconsistent_speeds > 0

(* The four tiers of a report, and the two that call for urgent actions *)
Tiers == {"Low", "Medium", "High", "Critical"}
UrgentTiers == {"High", "Critical"}

(* recs is base with urgent actions before it: base is its tail, and what
   comes before is not empty and holds no item of base *)
UrgentPrepended(recs, base) ==
    /\ Len(recs) > Len(base)
    /\ SubSeq(recs, Len(recs) - Len(base) + 1, Len(recs)) = base
    /\ \A i \in 1..(Len(recs) - Len(base)) : \A j \in DOMAIN base : recs[i] # base[j]

(* C25, as claimed: in the reports of both detectors each of the tiers Low,
   Medium, High and Critical has a summary text of its own (no other tier
   of the same detector gives it), and the recommendations are the base
   list with the urgent actions before it exactly when the tier is High or
   Critical, and the base list alone otherwise. *)
C25_TemplatesByTier ==
    /\ (returned # NoResult /\ returned.threat_level \in Tiers) =>
          /\ \A other \in Tiers \ {returned.threat_level} :
                returned.summary # PositionSummary([detector EXCEPT !.threat_level = other])
          /\ IF returned.threat_level \in UrgentTiers
             THEN UrgentPrepended(returned.recommendations, PositionBase)
             ELSE returned.recommendations = PositionBase
    /\ (sreturned # NoResult /\ sreturned.threat_level \in Tiers) =>
          /\ \A other \in Tiers \ {sreturned.threat_level} :
                sreturned.summary # SybilSummary([sybil EXCEPT !.threat_level = other])
          /\ IF sreturned.threat_level \in UrgentTiers
             THEN UrgentPrepended(sreturned.recommendations, SybilBase)
             ELSE sreturned.recommendations = SybilBase

(* C26: every trajectory is scanned in ascending time, so that no pair has
   dt < 0: records that come out of time order in the input and have
   distinct time stamps give no timestamp anomaly, and timestamp_anomalies
   is the number of adjacent pairs of equal time stamps in the sorted
   trajectories of the vehicles with two records or more. *)
C26_NoNegativeDt ==
    IsReport(returned) =>
        LET sorted == locals.rows_sorted
            ties == [p \in DOMAIN sorted |->
                       IF Len(sorted[p]) < 2 THEN 0
                       ELSE Cardinality({i \in 2..Len(sorted[p]) :
                                            sorted[p][i].localtime = sorted[p][i - 1].localtime})]
        IN  /\ \A p \in DOMAIN sorted : \A i \in 2..Len(sorted[p]) :
                  sorted[p][i].localtime - sorted[p][i - 1].localtime >= 0
            /\ returned.findings.timestamp_anomalies = SumOver(DOMAIN sorted, ties)
            /\ (\A p \in Seen : Cardinality(TimesOf(p)) = Cardinality(RecordsOf(p)))
                  => returned.findings.timestamp_anomalies = 0

(* Three records of one vehicle in descending time, all distinct *)
C26_Witness ==
    /\ IsReport(returned)
    /\ Len(Rows) = 3
    /\ RecordsOf("V1") = {1, 2, 3}
    /\ Rows[1].d.localtime.n > Rows[2].d.localtime.n
    /\ Rows[2].d.localtime.n > Rows[3].d.localtime.n
    /\ returned.findings.timestamp_anomalies = 0
    /\ returned.findings.total_positions_analyzed = 3

(* C27, as claimed: in every completed report the anomalous positions are
   no more than the positions analysed, so that anomaly_rate (kept in
   hundredths of a percent) lies between 0 and 100 percent. *)
C27_AnomaliesWithinPoints ==
    IsReport(returned) =>
        /\ returned.findings.anomalous_positions <= returned.findings.total_positions_analyzed
        /\ returned.findings.anomaly_rate >= 0
        /\ returned.findings.anomaly_rate <= 100 * 100

(* In a table that holds two records for each vehicle, one vehicle after
   the other: the vehicles whose pair is a timestamp anomaly, a
   teleportation, an impossible speed or a speed inconsistency *)
Anomalous ==
    {i \in 1..(Len(Rows) \div 2) :
        LET a == Rows[2 * i - 1].d
            b == Rows[2 * i].d
            dt == b.localtime.n - a.localtime.n
            m == IF dt < 100 THEN 100 ELSE dt
            d == Dist(<<0, a.x.n>>, <<0, b.x.n>>)
        IN  \/ dt <= 0
            \/ d > 50 * m
            \/ /\ b.spd.s # ""
               /\ b.spd.n > 100
               /\ 10 * d > m
               /\ Max(b.spd.n * m, 1000 * d) > 2 * Min(b.spd.n * m, 1000 * d)}

(* C28: the count identities of a completed report.  anomalous_positions is
   teleportations + impossible_movements + inconsistent_speeds +
   timestamp_anomalies, speed_violations is impossible_movements +
   teleportations, gps_spoofing_indicators is teleportations and
   off_road_positions is 0; affected_vehicles holds at most 50 vehicles, is
   empty exactly when anomalous_positions is 0, and holds only vehicles
   with an anomaly of one of those four kinds, all of them when they are
   50 or fewer; a fleet that shows repeated positions only has no affected
   vehicle, the threat level Low and the confidence score 0. *)
C28_CountIdentities ==
    IsReport(returned) =>
        LET f == returned.findings
        IN  /\ f.anomalous_positions = f.teleportations + f.impossible_movements
                                       + f.inconsistent_speeds + f.timestamp_anomalies
            /\ f.speed_violations = f.impossible_movements + f.teleportations
            /\ f.gps_spoofing_indicators = f.teleportations
            /\ f.off_road_positions = 0
            /\ Cardinality(f.affected_vehicles) <= 50
            /\ Cardinality(f.affected_vehicles)
                 = IF Cardinality(Anomalous) > 50 THEN 50 ELSE Cardinality(Anomalous)
            /\ f.affected_vehicles = {} <=> f.anomalous_positions = 0
            /\ \A v \in f.affected_vehicles : v.n \in Anomalous
            /\ (Anomalous = {} /\ Len(Rows) > 0) =>
                  /\ f.repeated_positions = Len(Rows) \div 2
                  /\ returned.threat_level = "Low"
                  /\ returned.confidence_score.num = 0

(* 51 vehicles with a timestamp anomaly and a repeated position each, 50
   of them in the report *)
C28_Witness ==
    /\ IsReport(returned)
    /\ Cardinality(Anomalous) = 51
    /\ Cardinality(returned.findings.affected_vehicles) = 50
    /\ returned.findings.timestamp_anomalies = 51
    /\ returned.findings.repeated_positions = 51


(* The request names no file: it is a dict whose filename is absent, null,
   "" or 0 *)
MissingFilename(request) ==
    /\ request.json
    /\ request.data.kind = "dict"
    /\ \/ request.data.filename = <<>>
       \/ request.data.filename[1] \in {NoneVal, JsonNum(0), JsonStr(<<>>)}

(* C29: the analysis routes signal a failure of the engine through the
   nested error marker only.  When a route has found the file and
   detector.analyze returns an error object, the answer has status 200 and
   success = true and carries that error object as
   report.analysis_results; an answer of status 400 is given only to a
   request that names no file, and one of status 404 only by the check
   os.path.exists, when no file of that name exists as it is made. *)
C29_FailureStaysNested ==
    [][("route" \in DOMAIN http' /\ http' # http) =>
          LET request == http'.request
              results == IF http'.route = "position" THEN returned' ELSE sreturned'
          IN  /\ http'.status = 400 => MissingFilename(request)
              /\ http'.status = 404 =>
                    /\ "route" \notin DOMAIN http
                    /\ request.data.filename[1].path # <<".">>
                    /\ \/ disk_path = <<>>
                       \/ disk_path # UploadFolder \o request.data.filename[1].path
              /\ ("route" \in DOMAIN http /\ IsErrorObject(results)) =>
                    /\ http'.status = 200
                    /\ http'.success
                    /\ http'.report[1].analysis_results = results]_vars

(* The position route has answered for a file that is still stored, with
   the error object of the engine in a success *)
C29_Witness ==
    /\ "route" \in DOMAIN http
    /\ http.route = "position"
    /\ http.status = 200
    /\ http.success
    /\ IsErrorObject(http.report[1].analysis_results)
    /\ http.report[1].analysis_results = returned
    /\ disk_path # <<>>
    /\ disk_path = UploadFolder \o http.request.data.filename[1].path
    /\ disk_file.readable

====
